---- MODULE Spec2Model ----
(***************************************************************************)
(* A model of the in-memory job queue (job_queue.py), of the background    *)
(* worker (worker.py), of the request handlers and their authentication    *)
(* (main.py) and of the conversion client (doctly_client.py) of the PDF    *)
(* parser microservice.                                                    *)
(*                                                                         *)
(* SpecQueue: producer and consumer threads call JobQueue.add_job and      *)
(* JobQueue.get_next_job; every statement inside the "with self._lock"     *)
(* region is a step of its own, so that the lock is what makes the region  *)
(* atomic.                                                                 *)
(*                                                                         *)
(* SpecWorker: control threads call start_background_worker,               *)
(* stop_background_worker, Worker.start and Worker.stop, statement by      *)
(* statement; every thread a start creates runs Worker._worker_loop and    *)
(* the per-job pipeline of Worker._process_job. Here add_job and           *)
(* get_next_job are single steps, which the lock of the queue makes them.  *)
(* Two control threads race, and at most MaxRaceJobs jobs are added.       *)
(*                                                                         *)
(* SpecLoop: the same operations with one control thread, so that the      *)
(* lifecycle calls come one after another, with up to MaxWorkerJobs jobs   *)
(* and up to MaxLoopThreads threads.                                       *)
(*                                                                         *)
(* SpecPipe: the worker as main.py runs it (started once, never stopped)   *)
(* with up to MaxPipeJobs jobs whose payloads vary in object key and in    *)
(* processing_type.                                                        *)
(*                                                                         *)
(* SpecIntake: the handler of POST /parse (main.py, parse_pdf), statement  *)
(* by statement, next to the worker it feeds; the worker is started once,  *)
(* as at import, and may later be stopped.                                 *)
(*                                                                         *)
(* SpecStats: a monitor thread calls JobQueue.size and                     *)
(* JobQueue.get_queue_status, statement by statement under the lock, next  *)
(* to one producer and one consumer.                                       *)
(*                                                                         *)
(* SpecPoll: the worker loop with DoctlyClient.poll_until_complete and     *)
(* download_result_with_fallback step by step: every status request, sleep *)
(* and fetch is a step, and the clock advances with them.                  *)
(*                                                                         *)
(* SpecJson: the handler of POST /parse-json (main.py, parse_pdf_json),    *)
(* step by step, next to the handler of POST /parse and the worker.        *)
(*                                                                         *)
(* SpecLive: SpecLoop's worker started once and never stopped, with weak   *)
(* fairness of the steps of the loop thread and of the start call.         *)
(*                                                                         *)
(* SpecPollLive: SpecPoll with weak fairness of the steps of the loop      *)
(* threads, for what the poll eventually does.                             *)
(*                                                                         *)
(* SpecRestart: the worker started, stopped and started again by one       *)
(* control thread, with jobs added only while no loop runs, and weak       *)
(* fairness of the steps of the loop threads.                              *)
(*                                                                         *)
(* SpecStore: SpecPipe with up to MaxWorkerJobs jobs whose object keys     *)
(* share a base name, and the objects upload_file leaves in the buckets.   *)
(*                                                                         *)
(* SpecAuth: the dependency verify_api_key (main.py) with is_ip_locked and *)
(* record_failed_attempt, statement by statement, on two threads of the    *)
(* pool that runs it; the dictionary failed_attempts is shared and not     *)
(* locked, so an append to a list that is_ip_locked has replaced meanwhile *)
(* is lost. The clock advances at most MaxAuthTicks times, by one time     *)
(* unit or by LOCKOUT_DURATION - 1.                                        *)
(*                                                                         *)
(* The documents the conversion returns are abstracted to the shape of     *)
(* their table lines, and TableParser.markdown_to_csv (tableparser.py) is  *)
(* computed over these shapes.                                             *)
(***************************************************************************)
EXTENDS Integers, Sequences, FiniteSets, TLC

\* ---------------------------------------------------------------- bounds
MaxJobs == 3
MaxTime == 1
MaxWorkerJobs == 2
MaxRaceJobs == 1
MaxWorkers == 1
MaxThreads == 2
MaxLoopThreads == 1
MaxPipeJobs == 1
MaxIntakeJobs == 2
MaxPollJobs == 1
MaxWaitTime == 3
PollInterval == 1
MaxQueryTime == 1
MaxRestartThreads == 2
MaxAuthTicks == 2

\* ------------------------------------------------------------ the threads
Producers == {"p1", "p2"}
Consumers == {"c1", "c2"}
Callers == Producers \cup Consumers

\* threads that call the lifecycle functions of worker.py
Ctls == {"k1", "k2"}
\* the control thread of SpecLoop
OneCtl == {"k1"}
\* the Worker objects and the threading.Thread objects that can be constructed
WorkerIds == 1..MaxWorkers
ThreadIds == 1..MaxThreads
\* the ids add_job can assign in SpecWorker
JobIds == 1..MaxWorkerJobs

\* An object key is a sequence of characters; DocKey is "doc.pdf".
DocKey == <<"d", "o", "c", ".", "p", "d", "f">>

\* the dictionary parse_pdf hands to add_job; request.document_id defaults to
\* None
ParseJobNoUrl(bucket, key, url) ==
    [s3_bucket |-> bucket, s3_key |-> key, webhook_url |-> "none",
     document_id |-> "none"]
ParseJob(bucket, key, url) ==
    [s3_bucket |-> bucket, s3_key |-> key, webhook_url |-> url,
     document_id |-> "none"]

Doc == ParseJob("b", DocKey, "http://cb")

\* a dictionary without the fields _process_job reads, such as {"test": "job1"}
TestData == [test |-> "job1"]

\* no dictionary: the value of a local variable that holds no payload
NoData == [none |-> TRUE]

\* Payloads handed to add_job
Payloads == {Doc, TestData}

\* the object keys of the jobs of SpecPipe: "doc.pdf", "in/d.p", "d", "a.b.p",
\* ".p", "i.x/d", "in/", "d."
Keys ==
    {DocKey, <<"i", "n", "/", "d", ".", "p">>, <<"d">>,
     <<"a", ".", "b", ".", "p">>, <<".", "p">>, <<"i", ".", "x", "/", "d">>,
     <<"i", "n", "/">>, <<"d", ".">>}

\* the job dictionaries of test_worker_processing_logic, with a processing_type
TypedJob(processing_type) ==
    [s3_bucket |-> "test-bucket", s3_key |-> <<"t", ".", "p">>,
     webhook_url |-> "https://example.com/webhook",
     processing_type |-> processing_type]

\* the payloads of SpecPipe
PipePayloads ==
    {ParseJob("b", k, "http://cb") : k \in Keys}
        \cup {TypedJob(pt) : pt \in {"markdown", "json"}} \cup {TestData}

VARIABLES
    queue,        \* JobQueue._queue, head first
    job_counter,  \* JobQueue._job_counter
    lock,         \* JobQueue._lock: "free" or the thread holding it
    now,          \* the clock read by time.time()
    pc,           \* per calling thread: the statement it is about to execute
    arg,          \* per calling thread: job_data of its add_job call
    job,          \* per calling thread: the local variable job
    position,     \* per calling thread: the local variable position
    appended,     \* history: the jobs in the order _queue.append ran
    added,        \* history: per finished add_job call, id, payload, position
    returned,     \* history: the jobs get_next_job returned, in return order
    len_at_append, \* history, per thread: len(_queue) right after its append
    worker_instance, \* worker.py's global _worker_instance: 0 is None
    nworkers,     \* Worker objects constructed so far
    running,      \* per Worker: self.running
    worker_thread, \* per Worker: self.worker_thread, 0 is None
    nthreads,     \* Thread objects constructed so far
    lpc,          \* per Thread: "none", "created", where its loop stands, "exited"
    lself,        \* per Thread: the Worker whose _worker_loop it runs
    ljob,         \* per Thread: the job its loop is processing
    temp_files,   \* per Thread: _process_job's local list temp_files
    document_id,  \* per Thread: _process_job's local document_id
    fs,           \* the temporary files on disk, as <<job id, suffix>>
    hooks,        \* history, per job id: the webhook POSTs attempted for it
    steps,        \* history, per job id: the pipeline steps begun for it
    taken,        \* history, per Thread: the ids of the jobs it dequeued
    ended,        \* history: the ids of the jobs whose _process_job call ended
    cpc,          \* per control thread: the statement it is about to execute
    cself,        \* per control thread: the Worker whose method it is in
    cjoin,        \* per control thread: the Thread it joins
    cvia,         \* per control thread: "module" in a module-level function
    quiet,        \* history, per Worker: a stop() returned and no start() since
    exc,          \* per Thread: the exception the try of _process_job raised
    issued,       \* per Thread: the id the gateway gave the document it took
    posted,       \* per Thread: the requests.post calls of the job in hand
    dest,         \* per Thread: bucket and key of the job's upload_file call
    rpc,          \* parse_pdf: the statement the handler is about to execute
    req,          \* parse_pdf: the request it handles
    renv,         \* parse_pdf: the required variables os.getenv found set
    missing_vars, \* parse_pdf: the local list missing_vars
    resp,         \* parse_pdf: the response it has produced
    mpc,          \* the monitoring thread: the statement it is about to execute
    snap,         \* the monitoring thread: the value its call returned
    poll,         \* per Thread: poll_until_complete's locals and what it did
    jloc,         \* parse_pdf_json: the locals of its inner try block
    store,        \* the objects upload_file has put into the buckets
    failed_attempts, \* main.py's failed_attempts: per client IP, the times
    apc,          \* per request thread: where it stands in verify_api_key
    areq,         \* per request thread: client IP and X-API-Key of its request
    aloc,         \* per request thread: the locals now, the cleaned list, the
                  \* time.time() of record_failed_attempt
    orphan,       \* the request threads whose failed_attempts[ip], fetched for
                  \* append, has since been replaced in the dictionary
    api_key,      \* the environment variable API_KEY of the process
    nticks        \* the advances of the clock in SpecAuth

qvars == <<queue, job_counter, lock, now, pc, arg, job, position,
           appended, added, returned, len_at_append>>

\* the queue's variables but for the clock
qnotime == <<queue, job_counter, lock, pc, arg, job, position,
             appended, added, returned, len_at_append>>

\* what only the callers of SpecQueue write
qlocal == <<lock, now, pc, arg, job, position, added, len_at_append>>

wglobal == <<worker_instance, nworkers, running, worker_thread, nthreads>>
wloop == <<lpc, lself, ljob, temp_files, document_id>>
whist == <<fs, hooks, steps, taken, ended>>
wctl == <<cpc, cself, cjoin, cvia>>
wjob == <<exc, issued, posted, dest>>
wvars == <<wglobal, wloop, whist, wctl, quiet, wjob>>
\* the worker's variables but for the files on disk
wnofs == <<wglobal, wloop, hooks, steps, taken, ended, wctl, quiet, wjob>>

ivars == <<rpc, req, renv, missing_vars, resp>>

svars == <<mpc, snap>>
\* verify_api_key and its rate limiting
avars == <<failed_attempts, apc, areq, aloc, orphan, api_key, nticks>>
nvars == <<svars, poll, jloc, store, avars>>

vars == <<qvars, wvars, ivars, nvars>>

NoJob == [id |-> 0, data |-> NoData, created_at |-> 0, status |-> "none",
          started_at |-> <<>>]

\* ------------------------------------------------------------- JobQueue
\* "with self._lock": the region is entered only when no thread holds the lock
LockFreeNoLock == TRUE
LockFree == lock = "free"

\* the dictionary add_job builds
NewJobLostData(data) ==
    [id |-> job_counter, data |-> NoData, created_at |-> now, status |-> "queued",
     started_at |-> <<>>]
NewJob(data) ==
    [id |-> job_counter, data |-> data, created_at |-> now, status |-> "queued",
     started_at |-> <<>>]

\* position = len(self._queue)
PositionZeroBased(q) == Len(q) - 1
PositionOf(q) == Len(q)

\* if self._queue:
QueueMoreThanOne(q) == Len(q) > 1
QueueNonEmpty(q) == q # <<>>

\* self._queue.popleft(): the element removed and the deque that remains
PopRight(q) == [job |-> q[Len(q)], rest |-> SubSeq(q, 1, Len(q) - 1)]
PeekLeft(q) == [job |-> Head(q), rest |-> q]
PopLeft(q) == [job |-> Head(q), rest |-> Tail(q)]

\* job["status"] = "processing"; job["started_at"] = time.time()
MarkNothing(j) == j
MarkProcessing(j) == [j EXCEPT !.status = "processing", !.started_at = <<now>>]

QueueInit ==
    /\ queue = <<>>
    /\ job_counter = 0
    /\ lock = "free"
    /\ now = 0
    /\ pc = [t \in Callers |-> "idle"]
    /\ arg = [t \in Callers |-> NoData]
    /\ job = [t \in Callers |-> NoJob]
    /\ position = [t \in Callers |-> 0]
    /\ appended = <<>>
    /\ added = <<>>
    /\ returned = <<>>
    /\ len_at_append = [t \in Callers |-> 0]

\* time passes
Tick ==
    /\ now < MaxTime
    /\ now' = now + 1
    /\ UNCHANGED <<queue, job_counter, lock, pc, arg, job, position,
                   appended, added, returned, len_at_append>>
    /\ UNCHANGED <<wvars, ivars, nvars>>

\* number of add_job calls begun so far
AddCalls == Len(added) + Cardinality({t \in Producers : pc[t] # "idle"})

\* a producer calls add_job(job_data)
AddCall(t) ==
    /\ pc[t] = "idle"
    /\ AddCalls < MaxJobs
    /\ \E d \in Payloads : arg' = [arg EXCEPT ![t] = d]
    /\ pc' = [pc EXCEPT ![t] = "add_acquire"]
    /\ UNCHANGED <<queue, job_counter, lock, now, job, position,
                   appended, added, returned, len_at_append>>
    /\ UNCHANGED <<wvars, ivars, nvars>>

\* with self._lock:
AddAcquire(t) ==
    /\ pc[t] = "add_acquire"
    /\ LockFree
    /\ lock' = t
    /\ pc' = [pc EXCEPT ![t] = "add_incr"]
    /\ UNCHANGED <<queue, job_counter, now, arg, job, position,
                   appended, added, returned, len_at_append>>
    /\ UNCHANGED <<wvars, ivars, nvars>>

\* self._job_counter += 1
AddIncr(t) ==
    /\ pc[t] = "add_incr"
    /\ job_counter' = job_counter + 1
    /\ pc' = [pc EXCEPT ![t] = "add_build"]
    /\ UNCHANGED <<queue, lock, now, arg, job, position,
                   appended, added, returned, len_at_append>>
    /\ UNCHANGED <<wvars, ivars, nvars>>

\* job = {"id": self._job_counter, "data": job_data, ...}
AddBuild(t) ==
    /\ pc[t] = "add_build"
    /\ job' = [job EXCEPT ![t] = NewJob(arg[t])]
    /\ pc' = [pc EXCEPT ![t] = "add_append"]
    /\ UNCHANGED <<queue, job_counter, lock, now, arg, position,
                   appended, added, returned, len_at_append>>
    /\ UNCHANGED <<wvars, ivars, nvars>>

\* self._queue.append(job)
AddAppend(t) ==
    /\ pc[t] = "add_append"
    /\ queue' = Append(queue, job[t])
    /\ appended' = Append(appended, job[t])
    /\ len_at_append' = [len_at_append EXCEPT ![t] = Len(queue) + 1]
    /\ pc' = [pc EXCEPT ![t] = "add_len"]
    /\ UNCHANGED <<job_counter, lock, now, arg, job, position, added, returned>>
    /\ UNCHANGED <<wvars, ivars, nvars>>

\* position = len(self._queue)
AddLen(t) ==
    /\ pc[t] = "add_len"
    /\ position' = [position EXCEPT ![t] = PositionOf(queue)]
    /\ pc' = [pc EXCEPT ![t] = "add_return"]
    /\ UNCHANGED <<queue, job_counter, lock, now, arg, job,
                   appended, added, returned, len_at_append>>
    /\ UNCHANGED <<wvars, ivars, nvars>>

\* return position (leaving the with block releases the lock; the locals of the
\* call are gone)
AddReturn(t) ==
    /\ pc[t] = "add_return"
    /\ lock' = IF lock = t THEN "free" ELSE lock
    /\ added' = Append(added, [id |-> job[t].id, data |-> arg[t],
                               position |-> position[t],
                               len_at_append |-> len_at_append[t]])
    /\ pc' = [pc EXCEPT ![t] = "idle"]
    /\ job' = [job EXCEPT ![t] = NoJob]
    /\ arg' = [arg EXCEPT ![t] = NoData]
    /\ position' = [position EXCEPT ![t] = 0]
    /\ len_at_append' = [len_at_append EXCEPT ![t] = 0]
    /\ UNCHANGED <<queue, job_counter, now, appended, returned>>
    /\ UNCHANGED <<wvars, ivars, nvars>>

\* a consumer calls get_next_job()
GetCall(t) ==
    /\ pc[t] = "idle"
    /\ pc' = [pc EXCEPT ![t] = "get_acquire"]
    /\ UNCHANGED <<queue, job_counter, lock, now, arg, job, position,
                   appended, added, returned, len_at_append>>
    /\ UNCHANGED <<wvars, ivars, nvars>>

\* with self._lock:
GetAcquire(t) ==
    /\ pc[t] = "get_acquire"
    /\ LockFree
    /\ lock' = t
    /\ pc' = [pc EXCEPT ![t] = "get_test"]
    /\ UNCHANGED <<queue, job_counter, now, arg, job, position,
                   appended, added, returned, len_at_append>>
    /\ UNCHANGED <<wvars, ivars, nvars>>

\* if self._queue:
GetTest(t) ==
    /\ pc[t] = "get_test"
    /\ pc' = [pc EXCEPT ![t] = IF QueueNonEmpty(queue) THEN "get_pop"
                                                            ELSE "get_none"]
    /\ UNCHANGED <<queue, job_counter, lock, now, arg, job, position,
                   appended, added, returned, len_at_append>>
    /\ UNCHANGED <<wvars, ivars, nvars>>

\* job = self._queue.popleft(); on an empty deque popleft raises IndexError,
\* which leaves the with block and get_next_job
GetPop(t) ==
    /\ pc[t] = "get_pop"
    /\ IF queue # <<>>
       THEN /\ job' = [job EXCEPT ![t] = PopLeft(queue).job]
            /\ queue' = PopLeft(queue).rest
            /\ pc' = [pc EXCEPT ![t] = "get_mark"]
            /\ lock' = lock
       ELSE /\ pc' = [pc EXCEPT ![t] = "idle"]
            /\ lock' = IF lock = t THEN "free" ELSE lock
            /\ UNCHANGED <<job, queue>>
    /\ UNCHANGED <<job_counter, now, arg, position,
                   appended, added, returned, len_at_append>>
    /\ UNCHANGED <<wvars, ivars, nvars>>

\* job["status"] = "processing"; job["started_at"] = time.time()
GetMark(t) ==
    /\ pc[t] = "get_mark"
    /\ job' = [job EXCEPT ![t] = MarkProcessing(job[t])]
    /\ pc' = [pc EXCEPT ![t] = "get_return"]
    /\ UNCHANGED <<queue, job_counter, lock, now, arg, position,
                   appended, added, returned, len_at_append>>
    /\ UNCHANGED <<wvars, ivars, nvars>>

\* return job
GetReturn(t) ==
    /\ pc[t] = "get_return"
    /\ lock' = IF lock = t THEN "free" ELSE lock
    /\ returned' = Append(returned, job[t])
    /\ job' = [job EXCEPT ![t] = NoJob]
    /\ pc' = [pc EXCEPT ![t] = "idle"]
    /\ UNCHANGED <<queue, job_counter, now, arg, position,
                   appended, added, len_at_append>>
    /\ UNCHANGED <<wvars, ivars, nvars>>

\* return None
GetNone(t) ==
    /\ pc[t] = "get_none"
    /\ lock' = IF lock = t THEN "free" ELSE lock
    /\ pc' = [pc EXCEPT ![t] = "idle"]
    /\ UNCHANGED <<queue, job_counter, now, arg, job, position,
                   appended, added, returned, len_at_append>>
    /\ UNCHANGED <<wvars, ivars, nvars>>

\* ---- JobQueue.size, JobQueue.is_empty and JobQueue.get_queue_status
\* the thread that calls them (the health endpoint of main.py calls size)
Monitor == "m1"

\* the monitoring thread has made no call
NoSnap == [call |-> "none"]

\* "oldest_job_age": time.time() - self._queue[0]["created_at"] if self._queue
\* else 0
OldestJobAge(q) == IF q # <<>> THEN now - q[1].created_at ELSE 0

\* the dictionary get_queue_status returns
QueueStatusCountsQueue(q) ==
    [call |-> "get_queue_status", size |-> Len(q),
     total_jobs_processed |-> Len(q), oldest_job_age |-> OldestJobAge(q)]
QueueStatus(q) ==
    [call |-> "get_queue_status", size |-> Len(q),
     total_jobs_processed |-> job_counter, oldest_job_age |-> OldestJobAge(q)]

\* the monitoring thread calls size(), is_empty() or get_queue_status()
MonCall ==
    /\ mpc = "idle"
    /\ \E m \in {"size_acquire", "empty_acquire", "status_acquire"} : mpc' = m
    /\ UNCHANGED <<qvars, wvars, ivars, snap, poll, jloc, store, avars>>

\* with self._lock:
MonAcquire ==
    /\ mpc \in {"size_acquire", "empty_acquire", "status_acquire"}
    /\ LockFree
    /\ lock' = Monitor
    /\ mpc' = CASE mpc = "size_acquire" -> "size_len"
                [] mpc = "empty_acquire" -> "empty_len"
                [] OTHER -> "status_read"
    /\ UNCHANGED <<queue, job_counter, now, pc, arg, job, position,
                   appended, added, returned, len_at_append>>
    /\ UNCHANGED <<wvars, ivars, snap, poll, jloc, store, avars>>

\* size: len(self._queue)
SizeLen ==
    /\ mpc = "size_len"
    /\ snap' = [call |-> "size", size |-> Len(queue)]
    /\ mpc' = "mon_return"
    /\ UNCHANGED <<qvars, wvars, ivars, poll, jloc, store, avars>>

\* is_empty: len(self._queue) == 0
EmptyLen ==
    /\ mpc = "empty_len"
    /\ snap' = [call |-> "is_empty", empty |-> (Len(queue) = 0)]
    /\ mpc' = "mon_return"
    /\ UNCHANGED <<qvars, wvars, ivars, poll, jloc, store, avars>>

\* get_queue_status: the dictionary is built
StatusRead ==
    /\ mpc = "status_read"
    /\ snap' = QueueStatus(queue)
    /\ mpc' = "mon_return"
    /\ UNCHANGED <<qvars, wvars, ivars, poll, jloc, store, avars>>

\* return: leaving the with block releases the lock; the caller has the value
MonReturn ==
    /\ mpc = "mon_return"
    /\ lock' = IF lock = Monitor THEN "free" ELSE lock
    /\ mpc' = "idle"
    /\ snap' = NoSnap
    /\ UNCHANGED <<queue, job_counter, now, pc, arg, job, position,
                   appended, added, returned, len_at_append>>
    /\ UNCHANGED <<wvars, ivars, poll, jloc, store, avars>>

\* --------------------------------------------------------------- Worker
\* job_data["s3_bucket"], job_data["s3_key"], job_data["webhook_url"] exist
HasFields(data) == {"s3_bucket", "s3_key", "webhook_url"} \subseteq DOMAIN data

\* the identifier the conversion gateway issues
DocId == "d1"

\* no upload call has been made
NoDest == [bucket |-> "none", key |-> <<>>]

\* an exception: the step that raised it and str(e), word by word
Raised(at, msg) == [at |-> at, msg |-> msg]
NoExc == Raised("none", <<>>)

\* Worker.__init__ and the module's globals
WorkerInit ==
    /\ worker_instance = 0
    /\ nworkers = 0
    /\ running = [w \in WorkerIds |-> FALSE]
    /\ worker_thread = [w \in WorkerIds |-> 0]
    /\ nthreads = 0
    /\ lpc = [t \in ThreadIds |-> "none"]
    /\ lself = [t \in ThreadIds |-> 0]
    /\ ljob = [t \in ThreadIds |-> NoJob]
    /\ temp_files = [t \in ThreadIds |-> <<>>]
    /\ document_id = [t \in ThreadIds |-> "none"]
    /\ fs = {}
    /\ hooks = [i \in JobIds |-> <<>>]
    /\ steps = [i \in JobIds |-> {}]
    /\ taken = [t \in ThreadIds |-> <<>>]
    /\ ended = {}
    /\ cpc = [k \in Ctls |-> "idle"]
    /\ cself = [k \in Ctls |-> 0]
    /\ cjoin = [k \in Ctls |-> 0]
    /\ cvia = [k \in Ctls |-> "direct"]
    /\ quiet = [w \in WorkerIds |-> FALSE]
    /\ exc = [t \in ThreadIds |-> NoExc]
    /\ issued = [t \in ThreadIds |-> "none"]
    /\ posted = [t \in ThreadIds |-> <<>>]
    /\ dest = [t \in ThreadIds |-> NoDest]

\* no request is being handled
NoRequest == [none |-> TRUE]
NoResponse == [status_code |-> 0]

IntakeInit ==
    /\ rpc = "idle"
    /\ req = NoRequest
    /\ renv = {}
    /\ missing_vars = {}
    /\ resp = NoResponse

\* poll_until_complete has not been called: its start_time, the status
\* reports it got (each with the elapsed time at which the query began), the
\* time.sleep calls and result requests it made, the error of the standard
\* download, and how the call ended
NoPoll == [start_time |-> 0, reports |-> <<>>, sleeps |-> 0, fetches |-> 0,
           first_error |-> <<>>, outcome |-> "none", elapsed |-> 0]

\* parse_pdf_json is not inside its inner try block
NoLocals == [document_id |-> "none", temp_files |-> <<>>, exc |-> NoExc,
             posted |-> <<>>, dest |-> NoDest]

\* ------------------------------------------------- verify_api_key: state
\* main.py: MAX_FAILED_ATTEMPTS and LOCKOUT_DURATION
MAX_FAILED_ATTEMPTS == 5
LOCKOUT_DURATION == 300

\* the threads of the pool that runs the dependency verify_api_key, which is
\* a plain function, for the requests in flight
AuthThreads == {"r1", "r2"}

\* request.client.host, or "unknown" when the request has no client
ClientIps == {"10.0.0.1"}

\* os.getenv("API_KEY") when the variable is not set
NotSet == <<"None">>
\* the value of API_KEY when it is set
ExpectedKey == <<"k">>

\* the X-API-Key headers of the requests: the key, a wrong key, a blank one
ApiKeys == {ExpectedKey, <<"w">>, <<" ">>}

\* the thread is not inside verify_api_key
NoCall == [none |-> TRUE]
NoAuthLocals == [now |-> 0, kept |-> <<>>, stamp |-> 0]

\* failed_attempts = defaultdict(list): every IP has the empty list; the
\* environment before load_dotenv()
AuthInit ==
    /\ failed_attempts = [ip \in ClientIps |-> <<>>]
    /\ apc = [t \in AuthThreads |-> "idle"]
    /\ areq = [t \in AuthThreads |-> NoCall]
    /\ aloc = [t \in AuthThreads |-> NoAuthLocals]
    /\ orphan = {}
    /\ api_key = NotSet
    /\ nticks = 0

MoreInit ==
    /\ mpc = "idle"
    /\ snap = NoSnap
    /\ poll = [t \in ThreadIds |-> NoPoll]
    /\ jloc = NoLocals
    /\ store = {}
    /\ AuthInit

\* main.py at import: job_queue = JobQueue(), and worker.py's globals
Init == QueueInit /\ WorkerInit /\ IntakeInit /\ MoreInit

\* job_queue.add_job(d), the whole locked region
AddJobOf(d) ==
    /\ LET j == [NewJob(d) EXCEPT !.id = job_counter + 1] IN
          /\ queue' = Append(queue, j)
          /\ appended' = Append(appended, j)
    /\ job_counter' = job_counter + 1
    /\ UNCHANGED <<returned, qlocal, ivars, nvars, wvars>>

\* a request handler calls job_queue.add_job(job_data)
WAddJob ==
    /\ job_counter < MaxWorkerJobs
    /\ \E d \in Payloads : AddJobOf(d)

\* ---- Worker._worker_loop
\* while self.running:
LoopWhile(t) ==
    /\ lpc[t] = "while"
    /\ lpc' = [lpc EXCEPT ![t] = IF running[lself[t]] THEN "get" ELSE "exited"]
    /\ UNCHANGED <<ivars, nvars, qvars, wglobal, lself, ljob, temp_files, document_id,
                   whist, wjob, wctl, quiet>>

\* where the loop goes after job = self.job_queue.get_next_job(): into
\* self._process_job(job) if job, else to time.sleep(1)
AfterGetDropsJob(found) == IF found THEN "while" ELSE "sleep1"
AfterGet(found) == IF found THEN "pj_fields" ELSE "sleep1"

\* job = self.job_queue.get_next_job()
LoopGet(t) ==
    /\ lpc[t] = "get"
    /\ IF QueueNonEmpty(queue)
       THEN LET j == MarkProcessing(PopLeft(queue).job) IN
            /\ queue' = PopLeft(queue).rest
            /\ ljob' = [ljob EXCEPT ![t] = j]
            /\ returned' = Append(returned, j)
            /\ taken' = [taken EXCEPT ![t] = Append(@, j.id)]
       ELSE UNCHANGED <<queue, ljob, returned, taken>>
    /\ lpc' = [lpc EXCEPT ![t] = AfterGet(QueueNonEmpty(queue))]
    /\ UNCHANGED <<job_counter, appended, qlocal, ivars, nvars, wglobal, lself, temp_files,
                   document_id, fs, hooks, steps, ended, wctl, quiet, wjob>>

\* where an exception that escapes _process_job or get_next_job takes the loop:
\* except Exception: log, time.sleep(5)
LoopExceptExits == "exited"
LoopExcept == "sleep5"

\* time.sleep(1): no job was available
LoopSleep1(t) ==
    /\ lpc[t] = "sleep1"
    /\ lpc' = [lpc EXCEPT ![t] = "while"]
    /\ UNCHANGED <<ivars, nvars, qvars, wglobal, lself, ljob, temp_files, document_id,
                   whist, wjob, wctl, quiet>>

\* except Exception: time.sleep(5)
LoopSleep5(t) ==
    /\ lpc[t] = "sleep5"
    /\ lpc' = [lpc EXCEPT ![t] = "while"]
    /\ UNCHANGED <<ivars, nvars, qvars, wglobal, lself, ljob, temp_files, document_id,
                   whist, wjob, wctl, quiet>>

\* ---- Worker._process_job
\* the index of the last c in the sequence p, 0 if there is none (rfind + 1)
LastIndex(p, c) ==
    LET at == {i \in 1..Len(p) : p[i] = c} IN
    IF at = {} THEN 0 ELSE CHOOSE i \in at : \A j \in at : j <= i

\* os.path.basename(p): what follows the last "/"
BaseName(p) == SubSeq(p, LastIndex(p, "/") + 1, Len(p))

\* os.path.splitext(p)[0]: p up to its last "." if that "." comes after the
\* last "/" and some character of the file name before it is not a "."
SplitExtRoot(p) ==
    LET sep == LastIndex(p, "/")
        dot == LastIndex(p, ".")
    IN  IF dot > sep /\ \E i \in (sep + 1)..(dot - 1) : p[i] # "."
        THEN SubSeq(p, 1, dot - 1)
        ELSE p

\* csv_key = f"processed/{original_filename}.csv"
CsvKeyKeepsDir(s3_key) == <<"processed/">> \o SplitExtRoot(s3_key) \o <<".csv">>
CsvKeyKeepsExt(s3_key) == <<"processed/">> \o BaseName(s3_key) \o <<".csv">>
CsvKey(s3_key) == <<"processed/">> \o SplitExtRoot(BaseName(s3_key)) \o <<".csv">>

\* s3_utils.upload_file: self.s3_client.upload_file(local_path, bucket, key)
\* puts the object under the key, in place of the object that was there
PutObject(objects, bucket, key, content) ==
    {o \in objects : o.bucket # bucket \/ o.key # key}
        \cup {[bucket |-> bucket, key |-> key, content |-> content]}

\* the URL s3_utils.upload_file returns for the object it stored
UploadUrl(bucket, key) == [bucket |-> bucket, key |-> key]

\* what s3_utils.download_file raises
DownloadErrors ==
    {<<"File", "not", "found", "in", "S3">>, <<"S3", "download", "failed">>}

\* status.lower() of a terminal failure status of the gateway
Lower(status) == IF status = "FAILED" THEN "failed" ELSE "expired"

\* poll_until_complete: raise Exception(f"Doctly document {error_message}"),
\* error_message = f"Document processing {status.lower()}"
PollFailure(status) ==
    <<"Doctly", "document", "Document", "processing", Lower(status)>>

\* the terminal outcomes of poll_until_complete
PollOutcomes == {"COMPLETED", "FAILED", "EXPIRED", "TIMEOUT"}

\* the local document_id of _process_job once process_pdf_direct has raised:
\* the tuple it would have returned is never assigned
DocumentIdOnFailure(local, gateway) == local

\* which client call Step 2 makes, and which transformation Step 3 applies
SubmitCall(data) == "process_pdf_direct"
TransformCall(data) == "markdown_to_csv"

\* the webhook bodies of Step 5 and of the except clause
SuccessBody(csv_url, s3_key, doc) ==
    [status |-> "success", csv_url |-> csv_url,
     original_filename |-> BaseName(s3_key), document_id |-> doc]

ErrorBodyNoMessage(msg, s3_key, doc) ==
    [status |-> "error", message |-> <<>>,
     original_filename |-> BaseName(s3_key), document_id |-> doc]
ErrorBody(msg, s3_key, doc) ==
    [status |-> "error", message |-> msg,
     original_filename |-> BaseName(s3_key), document_id |-> doc]

\* s3_bucket = job_data["s3_bucket"] ...; temp_files = []; document_id = None.
\* A missing key raises KeyError before the try block: the call ends in the
\* except clause of _worker_loop.
PjFields(t) ==
    /\ lpc[t] = "pj_fields"
    /\ IF HasFields(ljob[t].data)
       THEN /\ lpc' = [lpc EXCEPT ![t] = "pj_download"]
            /\ temp_files' = [temp_files EXCEPT ![t] = <<>>]
            /\ document_id' = [document_id EXCEPT ![t] = "none"]
            /\ UNCHANGED <<ljob, ended>>
       ELSE /\ lpc' = [lpc EXCEPT ![t] = LoopExcept]
            /\ ended' = ended \cup {ljob[t].id}
            /\ ljob' = [ljob EXCEPT ![t] = NoJob]
            /\ UNCHANGED <<temp_files, document_id>>
    /\ UNCHANGED <<ivars, nvars, qvars, wglobal, lself, fs, hooks, steps, taken, wctl, quiet,
                   wjob>>

\* Step 1: the temporary .pdf file and s3_utils.download_file
PjDownload(t) ==
    /\ lpc[t] = "pj_download"
    /\ temp_files' = [temp_files EXCEPT ![t] = Append(@, "pdf")]
    /\ fs' = fs \cup {<<ljob[t].id, "pdf">>}
    /\ steps' = [steps EXCEPT ![ljob[t].id] = @ \cup {"download"}]
    /\ \/ /\ lpc' = [lpc EXCEPT ![t] = "pj_doctly"]
          /\ exc' = exc
       \/ \E m \in DownloadErrors :
             /\ lpc' = [lpc EXCEPT ![t] = "pj_error"]
             /\ exc' = [exc EXCEPT ![t] = Raised("download", m)]
    /\ UNCHANGED <<ivars, nvars, qvars, wglobal, lself, ljob, document_id, hooks, taken,
                   ended, wctl, quiet, issued, posted, dest>>

\* Step 2, process_pdf_direct up to the gateway's answer to POST /documents/:
\* an HTTP error, or the document object with its id
PjDoctly(t) ==
    /\ lpc[t] = "pj_doctly"
    /\ steps' = [steps EXCEPT ![ljob[t].id] = @ \cup {SubmitCall(ljob[t].data)}]
    /\ \/ /\ lpc' = [lpc EXCEPT ![t] = "pj_poll"]
          /\ issued' = [issued EXCEPT ![t] = DocId]
          /\ exc' = exc
       \/ /\ lpc' = [lpc EXCEPT ![t] = "pj_error"]
          /\ exc' = [exc EXCEPT ![t] =
                        Raised("submit", <<"Doctly", "processing", "failed">>)]
          /\ issued' = issued
    /\ UNCHANGED <<ivars, nvars, qvars, wglobal, lself, ljob, temp_files, document_id, fs,
                   hooks, taken, ended, wctl, quiet, posted, dest>>

\* Step 2, poll_until_complete(document_id) and the return of
\* markdown_content, document_id
PjPoll(t) ==
    /\ lpc[t] = "pj_poll"
    /\ \E outcome \in PollOutcomes :
          IF outcome = "COMPLETED"
          THEN /\ lpc' = [lpc EXCEPT ![t] = "pj_parse"]
               /\ document_id' = [document_id EXCEPT ![t] = issued[t]]
               /\ exc' = exc
          ELSE /\ lpc' = [lpc EXCEPT ![t] = "pj_error"]
               /\ document_id' = [document_id EXCEPT ![t] =
                                     DocumentIdOnFailure(@, issued[t])]
               /\ exc' = [exc EXCEPT ![t] =
                             IF outcome = "TIMEOUT"
                             THEN Raised("timeout", <<"Doctly", "document",
                                                      "timed", "out">>)
                             ELSE Raised("remote", PollFailure(outcome))]
    /\ UNCHANGED <<ivars, nvars, qvars, wglobal, lself, ljob, temp_files, fs, hooks, steps,
                   taken, ended, wctl, quiet, issued, posted, dest>>

\* ---- DoctlyClient.poll_until_complete, statement by statement
\* the word w occurs in the message msg
Contains(msg, w) == \E i \in 1..Len(msg) : msg[i] = w

\* str(e).lower(), word by word
LowerWord(w) ==
    CASE w \in {"Failed", "FAILED"} -> "failed"
      [] w \in {"Expired", "EXPIRED"} -> "expired"
      [] OTHER -> w
LowerWords(msg) == [i \in 1..Len(msg) |-> LowerWord(msg[i])]

\* the except clause of the loop: if any(word in str(e).lower() for word in
\* ["failed", "expired"]) the exception is raised again, else the loop sleeps
PollGivesUpOnFailedOnly(msg) == Contains(LowerWords(msg), "failed")
PollGivesUp(msg) ==
    \E w \in {"failed", "expired"} : Contains(LowerWords(msg), w)

\* the JSON documents get_document_status returns: the status in the
\* gateway's spelling, a status the loop does not know, a null status, and a
\* document without the field
StatusBodies ==
    {[status |-> [str |-> st]] :
        st \in {"pending", "PROCESSING", "Completed", "failed", "EXPIRED", "queued"}}
    \cup {[status |-> [null |-> TRUE]], [id |-> [str |-> DocId]]}

\* str.upper()
Upper(w) ==
    CASE w \in {"pending", "Pending"} -> "PENDING"
      [] w \in {"processing", "Processing"} -> "PROCESSING"
      [] w \in {"completed", "Completed"} -> "COMPLETED"
      [] w \in {"failed", "Failed"} -> "FAILED"
      [] w \in {"expired", "Expired"} -> "EXPIRED"
      [] w = "queued" -> "QUEUED"
      [] OTHER -> w

\* what a status query can give: an exception, or the local status.
\* get_document_status turns a RequestException (no connection, a timeout, an
\* HTTP error status) into Exception("Doctly status check failed: ..."); a
\* status field that is null raises AttributeError at .upper().
NonTerminal == {"PENDING", "PROCESSING"}
StatusRequestFailed == <<"Doctly", "status", "check", "failed">>
StatusErrors ==
    {StatusRequestFailed,
     <<"NoneType", "object", "has", "no", "attribute", "upper">>}

\* status = status_data.get('status', '').upper()
StatusOf(body) ==
    LET v == IF "status" \in DOMAIN body THEN body.status ELSE [str |-> ""] IN
    IF "null" \in DOMAIN v
    THEN [status |-> "ERROR",
          error |-> <<"NoneType", "object", "has", "no", "attribute", "upper">>]
    ELSE [status |-> Upper(v.str), error |-> <<>>]

StatusAnswers ==
    {StatusOf(body) : body \in StatusBodies}
    \cup {[status |-> "ERROR", error |-> StatusRequestFailed]}

\* what download_result raises
FetchErrors ==
    {<<"Doctly", "download", "failed">>,
     <<"Downloaded", "Markdown", "content", "is", "empty">>,
     <<"No", "output_file_url", "available", "in", "completed", "document">>}

\* the timeout exception raised after the loop
PollTimeout == <<"Doctly", "document", "timed", "out">>

\* the call ends by raising e: process_pdf_direct passes the exception on and
\* the tuple assignment of _process_job does not happen
PollRaises(t, p, how, e) ==
    /\ poll' = [poll EXCEPT ![t] = [p EXCEPT !.outcome = how]]
    /\ exc' = [exc EXCEPT ![t] = e]
    /\ lpc' = [lpc EXCEPT ![t] = "pj_error"]
    /\ document_id' = [document_id EXCEPT ![t] =
                          DocumentIdOnFailure(@, issued[t])]

\* the call returns the content: process_pdf_direct returns
\* markdown_content, document_id
PollReturns(t, p) ==
    /\ poll' = [poll EXCEPT ![t] = [p EXCEPT !.outcome = "returned"]]
    /\ exc' = exc
    /\ lpc' = [lpc EXCEPT ![t] = "pj_parse"]
    /\ document_id' = [document_id EXCEPT ![t] = issued[t]]

\* the call goes on at another statement
PollGoes(t, p, where) ==
    /\ poll' = [poll EXCEPT ![t] = p]
    /\ lpc' = [lpc EXCEPT ![t] = where]
    /\ UNCHANGED <<exc, document_id>>

\* an exception with message msg reaches the except clause of the loop
PollExcept(t, p, at, msg) ==
    IF PollGivesUp(msg)
    THEN PollRaises(t, p, "raised", Raised(at, msg))
    ELSE PollGoes(t, p, "poll_sleep")

\* the branch on the status: COMPLETED goes to the download, FAILED and
\* EXPIRED raise, PENDING, PROCESSING and any other status sleep
AfterReportUnknownRaises(status) ==
    CASE status = "COMPLETED" -> "poll_fetch"
      [] status \in NonTerminal -> "poll_sleep"
      [] OTHER -> "raise"
AfterReportNoSleep(status) ==
    CASE status = "COMPLETED" -> "poll_fetch"
      [] status \in {"FAILED", "EXPIRED"} -> "raise"
      [] OTHER -> "poll_while"
AfterReport(status) ==
    CASE status = "COMPLETED" -> "poll_fetch"
      [] status \in {"FAILED", "EXPIRED"} -> "raise"
      [] OTHER -> "poll_sleep"

\* start_time = time.time()
PollBegin(t) ==
    /\ lpc[t] = "pj_poll"
    /\ PollGoes(t, [NoPoll EXCEPT !.start_time = now], "poll_while")
    /\ UNCHANGED <<ivars, svars, jloc, store, avars, qvars, wglobal, lself, ljob, temp_files, fs,
                   hooks, steps, taken, ended, wctl, quiet, issued, posted, dest>>

\* while time.time() - start_time < max_wait_time: ...; after the loop,
\* elapsed_time = time.time() - start_time and the timeout is raised
PollWhile(t) ==
    /\ lpc[t] = "poll_while"
    /\ IF now - poll[t].start_time < MaxWaitTime
       THEN PollGoes(t, poll[t], "poll_status")
       ELSE PollRaises(t, [poll[t] EXCEPT !.elapsed = now - poll[t].start_time],
                       "timeout", Raised("timeout", PollTimeout))
    /\ UNCHANGED <<ivars, svars, jloc, store, avars, qvars, wglobal, lself, ljob, temp_files, fs,
                   hooks, steps, taken, ended, wctl, quiet, issued, posted, dest>>

\* status_data = self.get_document_status(document_id), which takes up to
\* MaxQueryTime, and the branch on the status
PollStatus(t) ==
    /\ lpc[t] = "poll_status"
    /\ \E d \in 0..MaxQueryTime : now' = now + d
    /\ \E a \in StatusAnswers :
          LET p == [poll[t] EXCEPT !.reports = Append(@,
                       [status |-> a.status, error |-> a.error,
                        elapsed |-> now - poll[t].start_time])]
          IN  CASE a.status = "ERROR" -> PollExcept(t, p, "status", a.error)
                [] AfterReport(a.status) = "raise" ->
                       PollExcept(t, p, "remote", PollFailure(a.status))
                [] OTHER -> PollGoes(t, p, AfterReport(a.status))
    /\ UNCHANGED <<ivars, svars, jloc, store, avars, qnotime, wglobal, lself, ljob, temp_files,
                   fs, hooks, steps, taken, ended, wctl, quiet, issued, posted,
                   dest>>

\* how long time.sleep(secs) suspends the thread
SleepNothing(secs) == 0
SleepFor(secs) == secs

\* time.sleep(poll_interval)
PollSleep(t) ==
    /\ lpc[t] = "poll_sleep"
    /\ now' = now + SleepFor(PollInterval)
    /\ PollGoes(t, [poll[t] EXCEPT !.sleeps = @ + 1], "poll_while")
    /\ UNCHANGED <<ivars, svars, jloc, store, avars, qnotime, wglobal, lself, ljob, temp_files,
                   fs, hooks, steps, taken, ended, wctl, quiet, issued, posted,
                   dest>>

\* download_result_with_fallback: return self.download_result(document_id)
PollFetch(t) ==
    /\ lpc[t] = "poll_fetch"
    /\ LET p == [poll[t] EXCEPT !.fetches = @ + 1] IN
       \/ PollReturns(t, p)
       \/ \E e \in FetchErrors :
             PollGoes(t, [p EXCEPT !.first_error = e], "poll_fallback")
    /\ UNCHANGED <<ivars, svars, jloc, store, avars, qvars, wglobal, lself, ljob, temp_files, fs,
                   hooks, steps, taken, ended, wctl, quiet, issued, posted, dest>>

\* except Exception as e: the request with the User-Agent header; if it gives
\* no content either, raise e, which the except clause of the loop receives
PollFallback(t) ==
    /\ lpc[t] = "poll_fallback"
    /\ LET p == [poll[t] EXCEPT !.fetches = @ + 1] IN
       \/ PollReturns(t, p)
       \/ PollExcept(t, p, "fetch", poll[t].first_error)
    /\ UNCHANGED <<ivars, svars, jloc, store, avars, qvars, wglobal, lself, ljob, temp_files, fs,
                   hooks, steps, taken, ended, wctl, quiet, issued, posted, dest>>

\* ---- tableparser.py
\* A markdown document is the sequence of its stitched lines that contain a
\* "|": a divider line, or a line with cols cells between its outer pipes,
\* textual when no cell of it reads as a number.
Divider == [divider |-> TRUE, cols |-> 0, textual |-> FALSE]
Row(cols, textual) == [divider |-> FALSE, cols |-> cols, textual |-> textual]

\* parse_markdown_to_csv(markdown_text, min_column_threshold=4)
MinColumnThreshold == 4

\* the documents the gateway returns
Markdowns ==
    {<<>>,
     <<Divider>>,
     <<Row(3, TRUE), Divider, Row(3, FALSE)>>,
     <<Row(4, TRUE)>>,
     <<Row(4, TRUE), Divider, Row(4, FALSE)>>,
     <<Row(4, FALSE)>>,
     <<Row(4, TRUE), Row(5, FALSE), Row(5, FALSE)>>,
     <<Row(5, TRUE), Row(4, TRUE)>>,
     <<Row(3, TRUE), Row(6, TRUE), Divider, Row(6, TRUE), Row(6, FALSE)>>}

\* Step 2: the lines that are no dividers and have at least
\* min_column_threshold cells
IsTableRow(line) == ~line.divider /\ line.cols >= MinColumnThreshold
TableRows(md) == SelectSeq(md, IsTableRow)

\* how many of the rows have c cells, and where the first of them stands
CountOf(rows, c) == Cardinality({i \in 1..Len(rows) : rows[i].cols = c})
FirstOf(rows, c) == CHOOSE i \in 1..Len(rows) :
                        rows[i].cols = c /\ \A j \in 1..(i - 1) : rows[j].cols # c

\* Step 3: Counter(col_counts).most_common(1)[0][0], the count that occurs
\* most often, the one met first among equals
MostCommonColCount(rows) ==
    CHOOSE c \in {rows[i].cols : i \in 1..Len(rows)} :
        \A d \in {rows[i].cols : i \in 1..Len(rows)} \ {c} :
            \/ CountOf(rows, c) > CountOf(rows, d)
            \/ CountOf(rows, c) = CountOf(rows, d)
                  /\ FirstOf(rows, c) < FirstOf(rows, d)

\* Steps 3 to 5: the rows of the DataFrame; a textual first row is the header
DataRowsKeepsHeader(md) ==
    LET rows == TableRows(md) IN
    IF rows = <<>> THEN <<>>
    ELSE LET n == MostCommonColCount(rows) IN
         SelectSeq(rows, LAMBDA r : r.cols = n)
DataRows(md) ==
    LET rows == TableRows(md) IN
    IF rows = <<>> THEN <<>>
    ELSE LET n == MostCommonColCount(rows)
             cleaned == SelectSeq(rows, LAMBDA r : r.cols = n)
         IN  IF cleaned[1].textual THEN Tail(cleaned) ELSE cleaned

\* the message parse_markdown_to_csv returns with the DataFrame
ParseMessage(md) ==
    IF TableRows(md) = <<>> THEN "No valid tables found."
                            ELSE "Successfully parsed."

\* TableParser.markdown_to_csv: ValueError(f"Failed to parse markdown:
\* {message}") if df.empty, else the CSV text, a header line and one line for
\* each row
MarkdownToCsv(md) ==
    IF DataRows(md) = <<>>
    THEN [raised |-> TRUE,
          msg |-> <<"Failed", "to", "parse", "markdown", ParseMessage(md)>>]
    ELSE [raised |-> FALSE, lines |-> 1 + Len(DataRows(md))]

\* what markdown_to_csv does with the documents the gateway returns
Conversions == {MarkdownToCsv(md) : md \in Markdowns}

\* Step 3: csv_content = table_parser.markdown_to_csv(markdown_content)
PjParse(t) ==
    /\ lpc[t] = "pj_parse"
    /\ steps' = [steps EXCEPT ![ljob[t].id] = @ \cup {TransformCall(ljob[t].data)}]
    /\ \E r \in Conversions :
          IF r.raised
          THEN /\ lpc' = [lpc EXCEPT ![t] = "pj_error"]
               /\ exc' = [exc EXCEPT ![t] = Raised("parse", r.msg)]
          ELSE /\ lpc' = [lpc EXCEPT ![t] = "pj_upload"]
               /\ exc' = exc
    /\ UNCHANGED <<ivars, nvars, qvars, wglobal, lself, ljob, temp_files, document_id, fs,
                   hooks, taken, ended, wctl, quiet, issued, posted, dest>>

\* Step 4: csv_key, the temporary .csv file and s3_utils.upload_file
PjUpload(t) ==
    /\ lpc[t] = "pj_upload"
    /\ temp_files' = [temp_files EXCEPT ![t] = Append(@, "csv")]
    /\ fs' = fs \cup {<<ljob[t].id, "csv">>}
    /\ steps' = [steps EXCEPT ![ljob[t].id] = @ \cup {"upload"}]
    /\ dest' = [dest EXCEPT ![t] = [bucket |-> ljob[t].data.s3_bucket,
                                    key |-> CsvKey(ljob[t].data.s3_key)]]
    /\ \/ /\ lpc' = [lpc EXCEPT ![t] = "pj_success"]
          /\ exc' = exc
          /\ store' = PutObject(store, ljob[t].data.s3_bucket,
                                CsvKey(ljob[t].data.s3_key), ljob[t].id)
       \/ /\ lpc' = [lpc EXCEPT ![t] = "pj_error"]
          /\ exc' = [exc EXCEPT ![t] =
                        Raised("upload", <<"S3", "upload", "failed">>)]
          /\ store' = store
    /\ UNCHANGED <<ivars, svars, poll, jloc, avars, qvars, wglobal, lself, ljob,
                   document_id, hooks, taken, ended, wctl, quiet, issued, posted>>

\* the history entry of one call of _send_webhook
SendWebhook(h, status, doc, url_doc) ==
    Append(h, [status |-> status, document_id |-> doc, url_document_id |-> url_doc])

\* _send_webhook: one requests.post(webhook_url, json=payload, timeout=30);
\* ok is whether the POST and raise_for_status went through. A failure is
\* logged and not raised: the call returns either way.
WebhookCall(url, query, body, ok) ==
    [url |-> url, query |-> query, body |-> body, ok |-> ok]

\* where _process_job stands once _send_webhook has returned: the except
\* clause of _send_webhook has swallowed a failed POST, so the finally clause
\* is next whatever ok is
AfterWebhookRaises(ok) == IF ok THEN "pj_cleanup" ELSE "pj_error"
AfterWebhook(ok) == "pj_cleanup"

\* Step 5: the success webhook, document_id appended to the URL
PjSuccess(t) ==
    /\ lpc[t] = "pj_success"
    /\ hooks' = [hooks EXCEPT ![ljob[t].id] =
                    SendWebhook(@, "success", document_id[t], document_id[t])]
    /\ \E ok \in BOOLEAN :
          /\ posted' = [posted EXCEPT ![t] = Append(@,
                 WebhookCall(ljob[t].data.webhook_url, document_id[t],
                             SuccessBody(UploadUrl(dest[t].bucket, dest[t].key),
                                         ljob[t].data.s3_key, document_id[t]),
                             ok))]
          /\ lpc' = [lpc EXCEPT ![t] = AfterWebhook(ok)]
    /\ UNCHANGED <<ivars, nvars, qvars, wglobal, lself, ljob, temp_files, document_id, fs,
                   steps, taken, ended, wctl, quiet, exc, issued, dest>>

\* except Exception: the error webhook, document_id appended if there is one
PjError(t) ==
    /\ lpc[t] = "pj_error"
    /\ hooks' = [hooks EXCEPT ![ljob[t].id] =
                    SendWebhook(@, "error", document_id[t], document_id[t])]
    /\ \E ok \in BOOLEAN :
          /\ posted' = [posted EXCEPT ![t] = Append(@,
                 WebhookCall(ljob[t].data.webhook_url, document_id[t],
                             ErrorBody(exc[t].msg, ljob[t].data.s3_key,
                                       document_id[t]),
                             ok))]
          /\ lpc' = [lpc EXCEPT ![t] = AfterWebhook(ok)]
    /\ UNCHANGED <<ivars, nvars, qvars, wglobal, lself, ljob, temp_files, document_id, fs,
                   steps, taken, ended, wctl, quiet, exc, issued, dest>>

\* _cleanup_temp_files: the files on disk once the listed files are unlinked
CleanupKeepsCsv(files, id, listed) ==
    files \ {<<id, listed[i]>> : i \in 1..Len(listed) \cap {1}}
CleanupTempFiles(files, id, listed) ==
    files \ {<<id, listed[i]>> : i \in 1..Len(listed)}

\* finally: self._cleanup_temp_files(temp_files); _process_job returns and its
\* locals are gone
PjCleanup(t) ==
    /\ lpc[t] = "pj_cleanup"
    /\ fs' = CleanupTempFiles(fs, ljob[t].id, temp_files[t])
    /\ temp_files' = [temp_files EXCEPT ![t] = <<>>]
    /\ document_id' = [document_id EXCEPT ![t] = "none"]
    /\ exc' = [exc EXCEPT ![t] = NoExc]
    /\ issued' = [issued EXCEPT ![t] = "none"]
    /\ posted' = [posted EXCEPT ![t] = <<>>]
    /\ dest' = [dest EXCEPT ![t] = NoDest]
    /\ ended' = ended \cup {ljob[t].id}
    /\ ljob' = [ljob EXCEPT ![t] = NoJob]
    /\ lpc' = [lpc EXCEPT ![t] = "while"]
    /\ poll' = [poll EXCEPT ![t] = NoPoll]
    /\ UNCHANGED <<ivars, svars, jloc, store, avars, qvars, wglobal, lself, hooks, steps, taken,
                   wctl, quiet>>


\* ---- start_background_worker, stop_background_worker, Worker.start, .stop
\* a control thread is inside Worker.start of Worker w
InStart(k, w) ==
    cself[k] = w /\ cpc[k] \in {"start_test", "start_set", "start_new", "start_run"}

\* a control thread leaves the function it called, by return or by exception;
\* its locals are gone
CtlReturn(k) ==
    /\ cpc' = [cpc EXCEPT ![k] = "idle"]
    /\ cself' = [cself EXCEPT ![k] = 0]
    /\ cjoin' = [cjoin EXCEPT ![k] = 0]
    /\ cvia' = [cvia EXCEPT ![k] = "direct"]

\* a control thread goes on to its next statement
CtlGoto(k, where) ==
    /\ cpc' = [cpc EXCEPT ![k] = where]
    /\ UNCHANGED <<cself, cjoin, cvia>>

\* a control thread calls start_background_worker(job_queue)
SbwCall(k) ==
    /\ cpc[k] = "idle"
    /\ cpc' = [cpc EXCEPT ![k] = "sbw_test"]
    /\ cvia' = [cvia EXCEPT ![k] = "module"]
    /\ UNCHANGED <<ivars, nvars, qvars, wglobal, wloop, whist, wjob, cself, cjoin, quiet>>

\* if _worker_instance is None: ... return _worker_instance
SbwTest(k) ==
    /\ cpc[k] = "sbw_test"
    /\ IF worker_instance = 0 THEN CtlGoto(k, "sbw_new") ELSE CtlReturn(k)
    /\ UNCHANGED <<ivars, nvars, qvars, wglobal, wloop, whist, wjob, quiet>>

\* _worker_instance = Worker(job_queue)
SbwNew(k) ==
    /\ cpc[k] = "sbw_new"
    /\ nworkers < MaxWorkers
    /\ nworkers' = nworkers + 1
    /\ worker_instance' = nworkers + 1
    /\ running' = [running EXCEPT ![nworkers + 1] = FALSE]
    /\ worker_thread' = [worker_thread EXCEPT ![nworkers + 1] = 0]
    /\ CtlGoto(k, "sbw_start")
    /\ UNCHANGED <<ivars, nvars, qvars, nthreads, wloop, whist, wjob, quiet>>

\* _worker_instance.start(): the global is read again; None has no start
SbwStart(k) ==
    /\ cpc[k] = "sbw_start"
    /\ IF worker_instance = 0
       THEN /\ CtlReturn(k)
            /\ UNCHANGED quiet
       ELSE /\ cpc' = [cpc EXCEPT ![k] = "start_test"]
            /\ cself' = [cself EXCEPT ![k] = worker_instance]
            /\ quiet' = [quiet EXCEPT ![worker_instance] = FALSE]
            /\ UNCHANGED <<cjoin, cvia>>
    /\ UNCHANGED <<ivars, nvars, qvars, wglobal, wloop, whist, wjob>>

\* a control thread calls start() on a Worker it got from
\* start_background_worker
WStartCall(k) ==
    /\ cpc[k] = "idle"
    /\ \E w \in 1..nworkers :
          /\ cself' = [cself EXCEPT ![k] = w]
          /\ quiet' = [quiet EXCEPT ![w] = FALSE]
    /\ cpc' = [cpc EXCEPT ![k] = "start_test"]
    /\ cvia' = [cvia EXCEPT ![k] = "direct"]
    /\ UNCHANGED <<ivars, nvars, qvars, wglobal, wloop, whist, wjob, cjoin>>

\* Worker.start: if not self.running:
StartTest(k) ==
    /\ cpc[k] = "start_test"
    /\ IF ~running[cself[k]] THEN CtlGoto(k, "start_set") ELSE CtlReturn(k)
    /\ UNCHANGED <<ivars, nvars, qvars, wglobal, wloop, whist, wjob, quiet>>

\* self.running = True
StartSet(k) ==
    /\ cpc[k] = "start_set"
    /\ running' = [running EXCEPT ![cself[k]] = TRUE]
    /\ CtlGoto(k, "start_new")
    /\ UNCHANGED <<ivars, nvars, qvars, worker_instance, nworkers, worker_thread, nthreads,
                   wloop, whist, wjob, quiet>>

\* self.worker_thread = threading.Thread(target=self._worker_loop, daemon=True)
StartNew(k) ==
    /\ cpc[k] = "start_new"
    /\ nthreads < MaxThreads
    /\ nthreads' = nthreads + 1
    /\ worker_thread' = [worker_thread EXCEPT ![cself[k]] = nthreads + 1]
    /\ lpc' = [lpc EXCEPT ![nthreads + 1] = "created"]
    /\ lself' = [lself EXCEPT ![nthreads + 1] = cself[k]]
    /\ CtlGoto(k, "start_run")
    /\ UNCHANGED <<ivars, nvars, qvars, worker_instance, nworkers, running, ljob, temp_files,
                   document_id, whist, wjob, quiet>>

\* self.worker_thread.start(): the attribute is read again; starting a thread
\* that was started already raises RuntimeError
StartRun(k) ==
    /\ cpc[k] = "start_run"
    /\ LET th == worker_thread[cself[k]] IN
          lpc' = [lpc EXCEPT ![th] = IF @ = "created" THEN "while" ELSE @]
    /\ CtlReturn(k)
    /\ UNCHANGED <<ivars, nvars, qvars, wglobal, lself, ljob, temp_files, document_id, whist, wjob,
                   quiet>>

\* a control thread calls stop_background_worker()
StopBwCall(k) ==
    /\ cpc[k] = "idle"
    /\ cpc' = [cpc EXCEPT ![k] = "stopbw_test"]
    /\ cvia' = [cvia EXCEPT ![k] = "module"]
    /\ UNCHANGED <<ivars, nvars, qvars, wglobal, wloop, whist, wjob, cself, cjoin, quiet>>

\* if _worker_instance:
StopBwTest(k) ==
    /\ cpc[k] = "stopbw_test"
    /\ IF worker_instance # 0 THEN CtlGoto(k, "stopbw_stop") ELSE CtlReturn(k)
    /\ UNCHANGED <<ivars, nvars, qvars, wglobal, wloop, whist, wjob, quiet>>

\* _worker_instance.stop(): the global is read again; None has no stop
StopBwStop(k) ==
    /\ cpc[k] = "stopbw_stop"
    /\ IF worker_instance = 0
       THEN CtlReturn(k)
       ELSE /\ cpc' = [cpc EXCEPT ![k] = "stop_set"]
            /\ cself' = [cself EXCEPT ![k] = worker_instance]
            /\ UNCHANGED <<cjoin, cvia>>
    /\ UNCHANGED <<ivars, nvars, qvars, wglobal, wloop, whist, wjob, quiet>>

\* a control thread calls stop() on a Worker it got from
\* start_background_worker
WStopCall(k) ==
    /\ cpc[k] = "idle"
    /\ \E w \in 1..nworkers : cself' = [cself EXCEPT ![k] = w]
    /\ cpc' = [cpc EXCEPT ![k] = "stop_set"]
    /\ cvia' = [cvia EXCEPT ![k] = "direct"]
    /\ UNCHANGED <<ivars, nvars, qvars, wglobal, wloop, whist, wjob, cjoin, quiet>>

\* Worker.stop: self.running = False
StopSet(k) ==
    /\ cpc[k] = "stop_set"
    /\ running' = [running EXCEPT ![cself[k]] = FALSE]
    /\ CtlGoto(k, "stop_test")
    /\ UNCHANGED <<ivars, nvars, qvars, worker_instance, nworkers, worker_thread, nthreads,
                   wloop, whist, wjob, quiet>>

\* stop() of Worker cself[k] returns, into stop_background_worker if that
\* called it: from then on the Worker counts as stopped, unless a start() of
\* it is under way
StopReturns(k) ==
    /\ quiet' = [quiet EXCEPT ![cself[k]] = ~ \E o \in Ctls : InStart(o, cself[k])]
    /\ IF cvia[k] = "module"
       THEN /\ cpc' = [cpc EXCEPT ![k] = "stopbw_clear"]
            /\ cself' = [cself EXCEPT ![k] = 0]
            /\ cjoin' = [cjoin EXCEPT ![k] = 0]
            /\ UNCHANGED cvia
       ELSE CtlReturn(k)

\* if self.worker_thread:
StopTest(k) ==
    /\ cpc[k] = "stop_test"
    /\ IF worker_thread[cself[k]] # 0
       THEN /\ CtlGoto(k, "stop_read")
            /\ UNCHANGED quiet
       ELSE StopReturns(k)
    /\ UNCHANGED <<ivars, nvars, qvars, wglobal, wloop, whist, wjob>>

\* self.worker_thread.join(), the call: the attribute is read again; joining a
\* thread that was not started raises RuntimeError
StopRead(k) ==
    /\ cpc[k] = "stop_read"
    /\ IF lpc[worker_thread[cself[k]]] = "created"
       THEN CtlReturn(k)
       ELSE /\ cpc' = [cpc EXCEPT ![k] = "stop_join"]
            /\ cjoin' = [cjoin EXCEPT ![k] = worker_thread[cself[k]]]
            /\ UNCHANGED <<cself, cvia>>
    /\ UNCHANGED <<ivars, nvars, qvars, wglobal, wloop, whist, wjob, quiet>>

\* the thread joined has terminated
JoinedAtOnce(th) == TRUE
Joined(th) == lpc[th] = "exited"

\* self.worker_thread.join() returns once the thread has terminated, and then
\* stop() returns
StopJoin(k) ==
    /\ cpc[k] = "stop_join"
    /\ Joined(cjoin[k])
    /\ StopReturns(k)
    /\ UNCHANGED <<ivars, nvars, qvars, wglobal, wloop, whist, wjob>>

\* _worker_instance = None
StopBwClear(k) ==
    /\ cpc[k] = "stopbw_clear"
    /\ worker_instance' = 0
    /\ CtlReturn(k)
    /\ UNCHANGED <<ivars, nvars, qvars, nworkers, running, worker_thread, nthreads, wloop,
                   whist, wjob, quiet>>

\* add_job in SpecWorker
RaceAddJob == job_counter < MaxRaceJobs /\ WAddJob

WorkerNext ==
    \/ RaceAddJob
    \/ \E t \in ThreadIds : LoopWhile(t)
    \/ \E t \in ThreadIds : LoopGet(t)
    \/ \E t \in ThreadIds : LoopSleep1(t)
    \/ \E t \in ThreadIds : LoopSleep5(t)
    \/ \E t \in ThreadIds : PjFields(t)
    \/ \E t \in ThreadIds : PjDownload(t)
    \/ \E t \in ThreadIds : PjDoctly(t)
    \/ \E t \in ThreadIds : PjPoll(t)
    \/ \E t \in ThreadIds : PjParse(t)
    \/ \E t \in ThreadIds : PjUpload(t)
    \/ \E t \in ThreadIds : PjSuccess(t)
    \/ \E t \in ThreadIds : PjError(t)
    \/ \E t \in ThreadIds : PjCleanup(t)
    \/ \E k \in Ctls : SbwCall(k)
    \/ \E k \in Ctls : SbwTest(k)
    \/ \E k \in Ctls : SbwNew(k)
    \/ \E k \in Ctls : SbwStart(k)
    \/ \E k \in Ctls : WStartCall(k)
    \/ \E k \in Ctls : StartTest(k)
    \/ \E k \in Ctls : StartSet(k)
    \/ \E k \in Ctls : StartNew(k)
    \/ \E k \in Ctls : StartRun(k)
    \/ \E k \in Ctls : StopBwCall(k)
    \/ \E k \in Ctls : StopBwTest(k)
    \/ \E k \in Ctls : StopBwStop(k)
    \/ \E k \in Ctls : WStopCall(k)
    \/ \E k \in Ctls : StopSet(k)
    \/ \E k \in Ctls : StopTest(k)
    \/ \E k \in Ctls : StopRead(k)
    \/ \E k \in Ctls : StopJoin(k)
    \/ \E k \in Ctls : StopBwClear(k)

SpecWorker == Init /\ [][WorkerNext]_vars

\* the thread creation of Worker.start in SpecLoop
LoopStartNew(k) == nthreads < MaxLoopThreads /\ StartNew(k)

LoopNext ==
    \/ WAddJob
    \/ \E t \in ThreadIds : LoopWhile(t)
    \/ \E t \in ThreadIds : LoopGet(t)
    \/ \E t \in ThreadIds : LoopSleep1(t)
    \/ \E t \in ThreadIds : LoopSleep5(t)
    \/ \E t \in ThreadIds : PjFields(t)
    \/ \E t \in ThreadIds : PjDownload(t)
    \/ \E t \in ThreadIds : PjDoctly(t)
    \/ \E t \in ThreadIds : PjPoll(t)
    \/ \E t \in ThreadIds : PjParse(t)
    \/ \E t \in ThreadIds : PjUpload(t)
    \/ \E t \in ThreadIds : PjSuccess(t)
    \/ \E t \in ThreadIds : PjError(t)
    \/ \E t \in ThreadIds : PjCleanup(t)
    \/ \E k \in OneCtl : SbwCall(k)
    \/ \E k \in OneCtl : SbwTest(k)
    \/ \E k \in OneCtl : SbwNew(k)
    \/ \E k \in OneCtl : SbwStart(k)
    \/ \E k \in OneCtl : WStartCall(k)
    \/ \E k \in OneCtl : StartTest(k)
    \/ \E k \in OneCtl : StartSet(k)
    \/ \E k \in OneCtl : LoopStartNew(k)
    \/ \E k \in OneCtl : StartRun(k)
    \/ \E k \in OneCtl : StopBwCall(k)
    \/ \E k \in OneCtl : StopBwTest(k)
    \/ \E k \in OneCtl : StopBwStop(k)
    \/ \E k \in OneCtl : WStopCall(k)
    \/ \E k \in OneCtl : StopSet(k)
    \/ \E k \in OneCtl : StopTest(k)
    \/ \E k \in OneCtl : StopRead(k)
    \/ \E k \in OneCtl : StopJoin(k)
    \/ \E k \in OneCtl : StopBwClear(k)

SpecLoop == Init /\ [][LoopNext]_vars

\* ---- main.py, parse_pdf (POST /parse)
\* required_vars
RequiredVars == {"AWS_ACCESS_KEY_ID", "AWS_SECRET_ACCESS_KEY", "DOCTLY_API_KEY"}

\* missing_vars = [var for var in required_vars if not os.getenv(var)]
MissingVarsAwsOnly(present) ==
    {"AWS_ACCESS_KEY_ID", "AWS_SECRET_ACCESS_KEY"} \ present
MissingVars(present) == RequiredVars \ present

\* the ParseRequest bodies sent to /parse
ParseRequests ==
    {[s3_bucket |-> "b", s3_key |-> DocKey, webhook_url |-> "http://cb"],
     [s3_bucket |-> "b2", s3_key |-> <<"d">>, webhook_url |-> "http://cb2"]}

\* HTTPException(status_code=500, detail="Missing environment variables: ...")
ConfigError(missing) == [status_code |-> 500, missing |-> missing]

\* ParseResponse(status="queued", position=position)
Queued(place) ==
    [status_code |-> 200, status |-> "queued", position |-> place,
     document_id |-> "none"]

\* a request that passed verify_api_key enters the handler; the handlers are
\* coroutines of one event loop and parse_pdf never awaits, so one runs at a time
ParseCall ==
    /\ rpc = "idle"
    /\ job_counter < MaxIntakeJobs
    /\ \E r \in ParseRequests : req' = r
    /\ rpc' = "getenv"
    /\ UNCHANGED <<qvars, wvars, nvars, renv, missing_vars, resp>>

\* the os.getenv calls of the list comprehension
ParseGetenv ==
    /\ rpc = "getenv"
    /\ \E present \in SUBSET RequiredVars :
          /\ renv' = present
          /\ missing_vars' = MissingVars(present)
    /\ rpc' = "test"
    /\ UNCHANGED <<qvars, wvars, nvars, req, resp>>

\* if missing_vars: raise HTTPException(...), re-raised by except HTTPException
ParseTest ==
    /\ rpc = "test"
    /\ IF missing_vars # {}
       THEN /\ resp' = ConfigError(missing_vars)
            /\ rpc' = "done"
       ELSE /\ rpc' = "add"
            /\ resp' = resp
    /\ UNCHANGED <<qvars, wvars, nvars, req, renv, missing_vars>>

\* position = job_queue.add_job({...}); return ParseResponse(...)
ParseAdd ==
    /\ rpc = "add"
    /\ LET j == [NewJob(ParseJob(req.s3_bucket, req.s3_key, req.webhook_url))
                    EXCEPT !.id = job_counter + 1]
       IN  /\ queue' = Append(queue, j)
           /\ appended' = Append(appended, j)
           /\ resp' = Queued(PositionOf(Append(queue, j)))
    /\ job_counter' = job_counter + 1
    /\ rpc' = "done"
    /\ UNCHANGED <<returned, lock, now, pc, arg, job, position, added,
                   len_at_append, wvars, nvars, req, renv, missing_vars>>

\* the response is sent and the handler's locals are gone
ParseReturn ==
    /\ rpc = "done"
    /\ rpc' = "idle"
    /\ req' = NoRequest
    /\ renv' = {}
    /\ missing_vars' = {}
    /\ resp' = NoResponse
    /\ UNCHANGED <<qvars, wvars, nvars>>

\* a step of the handler
ParseStep == ParseGetenv \/ ParseTest \/ ParseAdd \/ ParseReturn

\* main.py calls start_background_worker(job_queue) once, at import
ImportStart(k) == nworkers = 0 /\ SbwCall(k)

\* the service: /parse requests, the start at import, a later stop, the worker.
\* Every payload parse_pdf builds has the fields _process_job reads, so the
\* except clause of _worker_loop is never entered.
IntakeNext ==
    \/ ParseCall
    \/ ParseGetenv
    \/ ParseTest
    \/ ParseAdd
    \/ ParseReturn
    \/ \E t \in ThreadIds : LoopWhile(t)
    \/ \E t \in ThreadIds : LoopGet(t)
    \/ \E t \in ThreadIds : LoopSleep1(t)
    \/ \E t \in ThreadIds : PjFields(t)
    \/ \E t \in ThreadIds : PjDownload(t)
    \/ \E t \in ThreadIds : PjDoctly(t)
    \/ \E t \in ThreadIds : PjPoll(t)
    \/ \E t \in ThreadIds : PjParse(t)
    \/ \E t \in ThreadIds : PjUpload(t)
    \/ \E t \in ThreadIds : PjSuccess(t)
    \/ \E t \in ThreadIds : PjError(t)
    \/ \E t \in ThreadIds : PjCleanup(t)
    \/ \E k \in OneCtl : ImportStart(k)
    \/ \E k \in OneCtl : SbwTest(k)
    \/ \E k \in OneCtl : SbwNew(k)
    \/ \E k \in OneCtl : SbwStart(k)
    \/ \E k \in OneCtl : StartTest(k)
    \/ \E k \in OneCtl : StartSet(k)
    \/ \E k \in OneCtl : LoopStartNew(k)
    \/ \E k \in OneCtl : StartRun(k)
    \/ \E k \in OneCtl : StopBwCall(k)
    \/ \E k \in OneCtl : StopBwTest(k)
    \/ \E k \in OneCtl : StopBwStop(k)
    \/ \E k \in OneCtl : StopSet(k)
    \/ \E k \in OneCtl : StopTest(k)
    \/ \E k \in OneCtl : StopRead(k)
    \/ \E k \in OneCtl : StopJoin(k)
    \/ \E k \in OneCtl : StopBwClear(k)

SpecIntake == Init /\ [][IntakeNext]_vars

\* ---- main.py, parse_pdf_json (POST /parse-json)
\* the temporary files of the handler are kept in fs under the job id 0
HandlerFiles == 0

\* ParseResponse(status="completed", document_id=document_id); position is
\* left at its default None, written 0
Completed(doc) ==
    [status_code |-> 200, status |-> "completed", position |-> 0,
     document_id |-> doc]

\* HTTPException(status_code=500, detail=str(e))
HandlerError(msg) == [status_code |-> 500, detail |-> msg]

\* the payloads of send_success_webhook and send_error_webhook
HandlerSuccessBody(csv_url, s3_key) ==
    [status |-> "success", csv_url |-> csv_url,
     original_filename |-> BaseName(s3_key)]
HandlerErrorBody(msg, s3_key) ==
    [status |-> "error", message |-> <<"Processing", "failed">> \o msg,
     original_filename |-> BaseName(s3_key)]

\* the handler is between the start of its Step 1 and the end of its finally
\* clause
InHandlerPipeline ==
    rpc \in {"js_download", "js_insurance", "js_convert", "js_upload",
             "js_success", "js_error", "js_cleanup"}

\* a request that passed verify_api_key enters the handler
JsonCall ==
    /\ rpc = "idle"
    /\ \E r \in ParseRequests : req' = r
    /\ rpc' = "js_getenv"
    /\ UNCHANGED <<qvars, wvars, nvars, renv, missing_vars, resp>>

\* the os.getenv calls of the list comprehension
JsonGetenv ==
    /\ rpc = "js_getenv"
    /\ \E present \in SUBSET RequiredVars :
          /\ renv' = present
          /\ missing_vars' = MissingVars(present)
    /\ rpc' = "js_test"
    /\ UNCHANGED <<qvars, wvars, nvars, req, resp>>

\* if missing_vars: raise HTTPException(...); else temp_files = [],
\* document_id = None and the inner try block is entered
JsonTest ==
    /\ rpc = "js_test"
    /\ IF missing_vars # {}
       THEN /\ resp' = ConfigError(missing_vars)
            /\ rpc' = "js_done"
       ELSE /\ rpc' = "js_download"
            /\ resp' = resp
    /\ UNCHANGED <<qvars, wvars, nvars, req, renv, missing_vars>>

\* Step 1: the temporary .pdf file and s3_utils.download_file
JsonDownload ==
    /\ rpc = "js_download"
    /\ fs' = fs \cup {<<HandlerFiles, "pdf">>}
    /\ \/ /\ rpc' = "js_insurance"
          /\ jloc' = [jloc EXCEPT !.temp_files = Append(@, "pdf")]
       \/ \E m \in DownloadErrors :
             /\ rpc' = "js_error"
             /\ jloc' = [jloc EXCEPT !.temp_files = Append(@, "pdf"),
                                     !.exc = Raised("download", m)]
    /\ UNCHANGED <<qvars, wnofs, svars, poll, store, avars, req, renv, missing_vars, resp>>

\* Step 2: doctly_client.process_pdf_insurance_direct, which submits the file
\* and polls inside the call
JsonInsurance ==
    /\ rpc = "js_insurance"
    /\ \/ /\ rpc' = "js_convert"
          /\ jloc' = [jloc EXCEPT !.document_id = DocId]
       \/ /\ rpc' = "js_error"
          /\ jloc' = [jloc EXCEPT !.exc =
                         Raised("submit", <<"Doctly", "Insurance", "processing",
                                            "failed">>)]
    /\ UNCHANGED <<qvars, wvars, svars, poll, store, avars, req, renv, missing_vars, resp>>

\* Step 3: csv_content = await convert_json_to_csv(json_content)
JsonConvert ==
    /\ rpc = "js_convert"
    /\ \/ /\ rpc' = "js_upload"
          /\ jloc' = jloc
       \/ /\ rpc' = "js_error"
          /\ jloc' = [jloc EXCEPT !.exc =
                         Raised("convert", <<"JSON", "to", "CSV", "conversion",
                                             "failed">>)]
    /\ UNCHANGED <<qvars, wvars, svars, poll, store, avars, req, renv, missing_vars, resp>>

\* Step 4: csv_key, the temporary .csv file and s3_utils.upload_file
JsonUpload ==
    /\ rpc = "js_upload"
    /\ fs' = fs \cup {<<HandlerFiles, "csv">>}
    /\ LET to == [bucket |-> req.s3_bucket, key |-> CsvKey(req.s3_key)] IN
       \/ /\ rpc' = "js_success"
          /\ jloc' = [jloc EXCEPT !.temp_files = Append(@, "csv"), !.dest = to]
          /\ store' = PutObject(store, to.bucket, to.key, HandlerFiles)
       \/ /\ rpc' = "js_error"
          /\ jloc' = [jloc EXCEPT !.temp_files = Append(@, "csv"), !.dest = to,
                                  !.exc = Raised("upload", <<"S3", "upload",
                                                             "failed">>)]
          /\ store' = store
    /\ UNCHANGED <<qvars, wnofs, svars, poll, avars, req, renv, missing_vars, resp>>

\* Step 5: send_success_webhook to the URL with document_id appended, then
\* return ParseResponse(status="completed", document_id=document_id)
JsonSuccess ==
    /\ rpc = "js_success"
    /\ \E ok \in BOOLEAN :
          jloc' = [jloc EXCEPT !.posted = Append(@,
                      WebhookCall(req.webhook_url, jloc.document_id,
                                  HandlerSuccessBody(UploadUrl(jloc.dest.bucket,
                                                               jloc.dest.key),
                                                     req.s3_key),
                                  ok))]
    /\ resp' = Completed(jloc.document_id)
    /\ rpc' = "js_cleanup"
    /\ UNCHANGED <<qvars, wvars, svars, poll, store, avars, req, renv, missing_vars>>

\* except Exception: send_error_webhook, document_id appended to the URL if
\* there is one, then raise HTTPException(status_code=500, detail=str(e))
JsonError ==
    /\ rpc = "js_error"
    /\ \E ok \in BOOLEAN :
          jloc' = [jloc EXCEPT !.posted = Append(@,
                      WebhookCall(req.webhook_url, jloc.document_id,
                                  HandlerErrorBody(jloc.exc.msg, req.s3_key),
                                  ok))]
    /\ resp' = HandlerError(jloc.exc.msg)
    /\ rpc' = "js_cleanup"
    /\ UNCHANGED <<qvars, wvars, svars, poll, store, avars, req, renv, missing_vars>>

\* finally: the listed temporary files are unlinked; the locals of the inner
\* try block are gone
JsonCleanup ==
    /\ rpc = "js_cleanup"
    /\ fs' = CleanupTempFiles(fs, HandlerFiles, jloc.temp_files)
    /\ jloc' = NoLocals
    /\ rpc' = "js_done"
    /\ UNCHANGED <<qvars, wnofs, svars, poll, store, avars, req, renv, missing_vars, resp>>

\* the response is sent and the handler's locals are gone
JsonReturn ==
    /\ rpc = "js_done"
    /\ rpc' = "idle"
    /\ req' = NoRequest
    /\ renv' = {}
    /\ missing_vars' = {}
    /\ resp' = NoResponse
    /\ UNCHANGED <<qvars, wvars, nvars>>

\* the service with both endpoints: /parse and /parse-json requests, the start
\* at import, the worker
JsonNext ==
    \/ ParseCall
    \/ ParseGetenv
    \/ ParseTest
    \/ ParseAdd
    \/ ParseReturn
    \/ JsonCall
    \/ JsonGetenv
    \/ JsonTest
    \/ JsonDownload
    \/ JsonInsurance
    \/ JsonConvert
    \/ JsonUpload
    \/ JsonSuccess
    \/ JsonError
    \/ JsonCleanup
    \/ JsonReturn
    \/ \E t \in ThreadIds : LoopWhile(t)
    \/ \E t \in ThreadIds : LoopGet(t)
    \/ \E t \in ThreadIds : LoopSleep1(t)
    \/ \E t \in ThreadIds : PjFields(t)
    \/ \E t \in ThreadIds : PjDownload(t)
    \/ \E t \in ThreadIds : PjDoctly(t)
    \/ \E t \in ThreadIds : PjPoll(t)
    \/ \E t \in ThreadIds : PjParse(t)
    \/ \E t \in ThreadIds : PjUpload(t)
    \/ \E t \in ThreadIds : PjSuccess(t)
    \/ \E t \in ThreadIds : PjError(t)
    \/ \E t \in ThreadIds : PjCleanup(t)
    \/ \E k \in OneCtl : ImportStart(k)
    \/ \E k \in OneCtl : SbwTest(k)
    \/ \E k \in OneCtl : SbwNew(k)
    \/ \E k \in OneCtl : SbwStart(k)
    \/ \E k \in OneCtl : StartTest(k)
    \/ \E k \in OneCtl : StartSet(k)
    \/ \E k \in OneCtl : LoopStartNew(k)
    \/ \E k \in OneCtl : StartRun(k)

SpecJson == Init /\ [][JsonNext]_vars

\* the jobs of SpecPipe
PipeAddJob ==
    /\ job_counter < MaxPipeJobs
    /\ \E d \in PipePayloads : AddJobOf(d)

\* main.py as it runs: start_background_worker is called, stop never is
PipeNext ==
    \/ PipeAddJob
    \/ \E t \in ThreadIds : LoopWhile(t)
    \/ \E t \in ThreadIds : LoopGet(t)
    \/ \E t \in ThreadIds : LoopSleep1(t)
    \/ \E t \in ThreadIds : LoopSleep5(t)
    \/ \E t \in ThreadIds : PjFields(t)
    \/ \E t \in ThreadIds : PjDownload(t)
    \/ \E t \in ThreadIds : PjDoctly(t)
    \/ \E t \in ThreadIds : PjPoll(t)
    \/ \E t \in ThreadIds : PjParse(t)
    \/ \E t \in ThreadIds : PjUpload(t)
    \/ \E t \in ThreadIds : PjSuccess(t)
    \/ \E t \in ThreadIds : PjError(t)
    \/ \E t \in ThreadIds : PjCleanup(t)
    \/ \E k \in OneCtl : SbwCall(k)
    \/ \E k \in OneCtl : SbwTest(k)
    \/ \E k \in OneCtl : SbwNew(k)
    \/ \E k \in OneCtl : SbwStart(k)
    \/ \E k \in OneCtl : StartTest(k)
    \/ \E k \in OneCtl : StartSet(k)
    \/ \E k \in OneCtl : StartNew(k)
    \/ \E k \in OneCtl : StartRun(k)

SpecPipe == Init /\ [][PipeNext]_vars

\* the jobs of SpecPoll
PollAddJob ==
    /\ job_counter < MaxPollJobs
    /\ AddJobOf(Doc)

\* the worker as main.py runs it, with poll_until_complete statement by
\* statement and the clock advanced by its sleeps and its status queries
PollNext ==
    \/ PollAddJob
    \/ \E t \in ThreadIds : LoopWhile(t)
    \/ \E t \in ThreadIds : LoopGet(t)
    \/ \E t \in ThreadIds : LoopSleep1(t)
    \/ \E t \in ThreadIds : PjFields(t)
    \/ \E t \in ThreadIds : PjDownload(t)
    \/ \E t \in ThreadIds : PjDoctly(t)
    \/ \E t \in ThreadIds : PollBegin(t)
    \/ \E t \in ThreadIds : PollWhile(t)
    \/ \E t \in ThreadIds : PollStatus(t)
    \/ \E t \in ThreadIds : PollSleep(t)
    \/ \E t \in ThreadIds : PollFetch(t)
    \/ \E t \in ThreadIds : PollFallback(t)
    \/ \E t \in ThreadIds : PjParse(t)
    \/ \E t \in ThreadIds : PjUpload(t)
    \/ \E t \in ThreadIds : PjSuccess(t)
    \/ \E t \in ThreadIds : PjError(t)
    \/ \E t \in ThreadIds : PjCleanup(t)
    \/ \E k \in OneCtl : ImportStart(k)
    \/ \E k \in OneCtl : SbwTest(k)
    \/ \E k \in OneCtl : SbwNew(k)
    \/ \E k \in OneCtl : SbwStart(k)
    \/ \E k \in OneCtl : StartTest(k)
    \/ \E k \in OneCtl : StartSet(k)
    \/ \E k \in OneCtl : StartNew(k)
    \/ \E k \in OneCtl : StartRun(k)

SpecPoll == Init /\ [][PollNext]_vars

\* a step of poll_until_complete in thread t
PollStep(t) ==
    \/ PollBegin(t) \/ PollWhile(t) \/ PollStatus(t) \/ PollSleep(t)
    \/ PollFetch(t) \/ PollFallback(t)

\* SpecPoll with a thread that goes on: every request it makes has a timeout
\* and every sleep ends, so a call that can take a step takes it
SpecPollLive ==
    Init /\ [][PollNext]_vars /\ WF_vars(\E t \in ThreadIds : PollStep(t))

\* a step of the loop thread t, and a step of the start at import
LoopStep(t) ==
    \/ LoopWhile(t) \/ LoopGet(t) \/ LoopSleep1(t) \/ LoopSleep5(t)
    \/ PjFields(t) \/ PjDownload(t) \/ PjDoctly(t) \/ PjPoll(t) \/ PjParse(t)
    \/ PjUpload(t) \/ PjSuccess(t) \/ PjError(t) \/ PjCleanup(t)
StartStep(k) ==
    \/ SbwCall(k) \/ SbwTest(k) \/ SbwNew(k) \/ SbwStart(k)
    \/ StartTest(k) \/ StartSet(k) \/ StartNew(k) \/ StartRun(k)

\* the worker as main.py runs it, with up to MaxWorkerJobs jobs
LiveNext ==
    \/ WAddJob
    \/ \E t \in ThreadIds : LoopWhile(t)
    \/ \E t \in ThreadIds : LoopGet(t)
    \/ \E t \in ThreadIds : LoopSleep1(t)
    \/ \E t \in ThreadIds : LoopSleep5(t)
    \/ \E t \in ThreadIds : PjFields(t)
    \/ \E t \in ThreadIds : PjDownload(t)
    \/ \E t \in ThreadIds : PjDoctly(t)
    \/ \E t \in ThreadIds : PjPoll(t)
    \/ \E t \in ThreadIds : PjParse(t)
    \/ \E t \in ThreadIds : PjUpload(t)
    \/ \E t \in ThreadIds : PjSuccess(t)
    \/ \E t \in ThreadIds : PjError(t)
    \/ \E t \in ThreadIds : PjCleanup(t)
    \/ \E k \in OneCtl : SbwCall(k)
    \/ \E k \in OneCtl : SbwTest(k)
    \/ \E k \in OneCtl : SbwNew(k)
    \/ \E k \in OneCtl : SbwStart(k)
    \/ \E k \in OneCtl : StartTest(k)
    \/ \E k \in OneCtl : StartSet(k)
    \/ \E k \in OneCtl : StartNew(k)
    \/ \E k \in OneCtl : StartRun(k)

\* the loop thread is scheduled again and again, every call it makes returns
\* or raises, and the start at import runs to its end
SpecLive ==
    /\ Init
    /\ [][LiveNext]_vars
    /\ WF_vars(\E t \in ThreadIds : LoopStep(t))
    /\ WF_vars(\E k \in OneCtl : StartStep(k))

QueueNext ==
    \/ Tick
    \/ \E t \in Producers : AddCall(t)
    \/ \E t \in Producers : AddAcquire(t)
    \/ \E t \in Producers : AddIncr(t)
    \/ \E t \in Producers : AddBuild(t)
    \/ \E t \in Producers : AddAppend(t)
    \/ \E t \in Producers : AddLen(t)
    \/ \E t \in Producers : AddReturn(t)
    \/ \E t \in Consumers : GetCall(t)
    \/ \E t \in Consumers : GetAcquire(t)
    \/ \E t \in Consumers : GetTest(t)
    \/ \E t \in Consumers : GetPop(t)
    \/ \E t \in Consumers : GetMark(t)
    \/ \E t \in Consumers : GetReturn(t)
    \/ \E t \in Consumers : GetNone(t)

SpecQueue == Init /\ [][QueueNext]_vars

\* the callers of SpecStats
StatProducers == {"p1"}
StatConsumers == {"c1"}

\* the queue with one producer, one consumer and the monitoring thread
StatsNext ==
    \/ Tick
    \/ \E t \in StatProducers : AddCall(t)
    \/ \E t \in StatProducers : AddAcquire(t)
    \/ \E t \in StatProducers : AddIncr(t)
    \/ \E t \in StatProducers : AddBuild(t)
    \/ \E t \in StatProducers : AddAppend(t)
    \/ \E t \in StatProducers : AddLen(t)
    \/ \E t \in StatProducers : AddReturn(t)
    \/ \E t \in StatConsumers : GetCall(t)
    \/ \E t \in StatConsumers : GetAcquire(t)
    \/ \E t \in StatConsumers : GetTest(t)
    \/ \E t \in StatConsumers : GetPop(t)
    \/ \E t \in StatConsumers : GetMark(t)
    \/ \E t \in StatConsumers : GetReturn(t)
    \/ \E t \in StatConsumers : GetNone(t)
    \/ MonCall
    \/ MonAcquire
    \/ SizeLen
    \/ EmptyLen
    \/ StatusRead
    \/ MonReturn

SpecStats == Init /\ [][StatsNext]_vars

\* ================================================================ claims
\* the calls of a consumer that hold a job taken out of the deque
Holding(t) == pc[t] \in {"get_mark", "get_return"}

\* the same job, whatever get_next_job wrote into it
SameJob(a, b) == a.id = b.id /\ a.data = b.data /\ a.created_at = b.created_at

\* C1: the jobs returned by successive get_next_job calls are, in order, the
\* jobs first appended: the k-th job returned is the k-th job added, so no job
\* added earlier is returned after one added later.
C1_StrictFifo ==
    /\ Len(returned) <= Len(appended)
    /\ \A i \in 1..Len(returned) : SameJob(returned[i], appended[i])

\* three jobs went in, two came out while the third was still waiting
C1_Witness ==
    /\ Len(appended) = 3
    /\ Len(returned) = 2
    /\ Len(queue) = 1
    /\ returned[1].started_at # returned[2].started_at

\* C2: with add_job called from several threads, the k-th job appended has
\* id k (no id duplicated, none skipped), the counter equals the number of
\* increments made, and the ids in the queue increase from head to tail.
C2_IdsDenseAndIncreasing ==
    /\ \A i \in 1..Len(appended) : appended[i].id = i
    /\ \A i \in 1..Len(added) : added[i].id = i
    /\ job_counter = Len(appended)
           + Cardinality({t \in Producers : pc[t] \in {"add_build", "add_append"}})
    /\ \A i \in 1..Len(queue) : \A k \in 1..Len(queue) :
           i < k => queue[i].id < queue[k].id

\* one producer is inside the locked region while the other waits for the lock
C2_Witness ==
    /\ pc["p1"] = "add_build"
    /\ pc["p2"] = "add_acquire"
    /\ lock = "p1"
    /\ Len(appended) = 1

\* C3: no job is handed out twice: the jobs returned so far and the jobs the
\* consumers hold inside get_next_job are pairwise different jobs.
C3_NoJobHandedOutTwice ==
    /\ \A i \in 1..Len(returned) : \A k \in 1..Len(returned) :
           i # k => returned[i].id # returned[k].id
    /\ \A t \in Consumers : \A i \in 1..Len(returned) :
           Holding(t) => job[t].id # returned[i].id
    /\ \A t \in Consumers : \A u \in Consumers :
           (t # u /\ Holding(t) /\ Holding(u)) => job[t].id # job[u].id

\* two consumers are inside get_next_job at once, after a job was returned
C3_Witness ==
    /\ Len(returned) >= 1
    /\ lock = "c2"
    /\ pc["c2"] = "get_pop"
    /\ pc["c1"] = "get_acquire"
    /\ Len(queue) >= 1

\* C4: every job in the queue has status "queued" and no started_at; every job
\* returned has status "processing", a started_at, and is not in the queue;
\* and every job ever appended is in the queue, has been returned, or is held
\* by the consumer that owns the lock inside get_next_job.
C4_QueuedOrProcessing ==
    /\ \A i \in 1..Len(queue) :
           queue[i].status = "queued" /\ queue[i].started_at = <<>>
    /\ \A i \in 1..Len(returned) :
           /\ returned[i].status = "processing"
           /\ returned[i].started_at # <<>>
           /\ \A k \in 1..Len(queue) : queue[k].id # returned[i].id
    /\ \A i \in 1..Len(appended) :
           \/ \E k \in 1..Len(queue) : queue[k] = appended[i]
           \/ \E k \in 1..Len(returned) : SameJob(returned[k], appended[i])
           \/ \E t \in Consumers :
                  Holding(t) /\ lock = t /\ SameJob(job[t], appended[i])

\* one job has been returned and another is still queued
C4_Witness ==
    /\ Len(returned) >= 1
    /\ Len(queue) >= 1
    /\ \A t \in Callers : pc[t] = "idle"

\* C5: a returned job carries the payload its add_job call was given and has
\* status "processing".
C5_PayloadRoundTrip ==
    \A i \in 1..Len(returned) :
        /\ returned[i].status = "processing"
        /\ \E k \in 1..Len(added) :
               added[k].id = returned[i].id /\ added[k].data = returned[i].data
        /\ \A k \in 1..Len(added) :
               added[k].id = returned[i].id => added[k].data = returned[i].data

\* two jobs with different payloads were returned, a third add in between
C5_Witness ==
    /\ Len(returned) = 2
    /\ returned[1].data = TestData
    /\ returned[2].data = Doc
    /\ Len(added) = 3

\* C6: add_job returns the length of the queue right after its append, which
\* is at least 1 and is the 1-based place of the new job counted from the head.
C6_PositionIsLengthAfterAppend ==
    /\ \A i \in 1..Len(added) :
           added[i].position = added[i].len_at_append /\ added[i].position >= 1
    /\ \A t \in Producers :
           pc[t] = "add_return" =>
               /\ position[t] >= 1
               /\ position[t] <= Len(queue)
               /\ queue[position[t]] = job[t]

\* the second job added got position 1, the first one having been dequeued,
\* and a consumer is waiting for the lock while a third add computes its place
C6_Witness ==
    /\ Len(added) = 2
    /\ added[2].position = 1
    /\ \E t \in Producers : pc[t] = "add_return" /\ position[t] = 2
    /\ \E t \in Consumers : pc[t] = "get_acquire"

\* C7, in states: every job appended is in the queue, returned or held (so N
\* returns after N adds leave the queue empty); get_next_job answers None only
\* on an empty queue; popleft is reached only on a non-empty one; and a
\* get_next_job that found the queue empty can always go on to return.
C7_EmptyStates ==
    /\ Len(appended) = Len(queue) + Len(returned)
                       + Cardinality({t \in Consumers : Holding(t)})
    /\ \A t \in Consumers :
           /\ pc[t] = "get_none" => (queue = <<>> /\ job[t] = NoJob)
           /\ pc[t] = "get_pop" => queue # <<>>
           /\ pc[t] = "get_test" => ENABLED GetTest(t)
           /\ pc[t] = "get_none" => ENABLED GetNone(t)

\* C7, in steps: while a get_next_job call is on its way to return None, no
\* step changes the queue or the id counter, and the call only moves on to
\* its return.
C7_EmptySteps ==
    \A t \in Consumers :
        (pc[t] \in {"get_test", "get_none"} /\ queue = <<>>) =>
            /\ queue' = queue
            /\ job_counter' = job_counter
            /\ pc'[t] \in {"get_test", "get_none", "idle"}
            /\ returned' = returned

\* C7: after N add_job calls the first N get_next_job calls return a job and
\* the next returns None at once, leaving queue and id counter as they were.
C7_EmptySignal == []C7_EmptyStates /\ [][C7_EmptySteps]_vars

\* two jobs were added, two returned, and a third get_next_job is returning None
C7_Witness ==
    /\ Len(added) = 2
    /\ Len(returned) = 2
    /\ \E t \in Consumers : pc[t] = "get_none"

\* a loop thread is inside self._process_job(job)
InJob(t) ==
    lpc[t] \in {"pj_fields", "pj_download", "pj_doctly", "pj_poll", "pj_parse",
                "pj_upload", "pj_success", "pj_error", "pj_cleanup",
                "poll_while", "poll_status", "poll_sleep", "poll_fetch",
                "poll_fallback"}

\* a thread is executing Worker._worker_loop
InLoop(t) == lpc[t] \notin {"none", "created", "exited"}

\* the _process_job call of the job has ended: its cleanup is done, no
\* temporary file of it is left, and if its payload had the fields the pipeline
\* reads, exactly one webhook was attempted
JobRunToEnd(id) ==
    /\ id \in ended
    /\ \A f \in fs : f[1] # id
    /\ HasFields(appended[id].data) => Len(hooks[id]) = 1

\* C8: a worker loop has at most one job in flight: whenever it holds a job,
\* every job it dequeued before has run to its end (webhook attempted,
\* temporary files removed), and when it is about to call get_next_job every
\* job it ever dequeued has; so it ends its jobs in dequeue order.
C8_OneJobAtATime ==
    \A t \in ThreadIds :
        /\ \A i \in 1..Len(taken[t]) :
               (i < Len(taken[t]) \/ ~InJob(t)) => JobRunToEnd(taken[t][i])
        /\ InJob(t) => /\ Len(taken[t]) >= 1
                       /\ ljob[t].id = taken[t][Len(taken[t])]
                       /\ ljob[t].id \notin ended
        /\ ~InJob(t) => ljob[t] = NoJob

\* a loop is uploading its second job, the first having ended
C8_Witness ==
    \E t \in ThreadIds :
        /\ Len(taken[t]) = 2
        /\ lpc[t] = "pj_upload"
        /\ Len(hooks[taken[t][1]]) = 1

\* C9: at most one thread is executing the worker loop, whatever the
\* interleaving of the start and stop requests.
C9_AtMostOneLoop == Cardinality({t \in ThreadIds : InLoop(t)}) <= 1

\* C10: once stop() of a Worker has returned, and until a later start(), every
\* loop thread of that Worker has terminated (so none calls get_next_job) and
\* every job such a thread dequeued has run to its end.
C10_StopWaits ==
    \A w \in WorkerIds :
        quiet[w] =>
            \A t \in ThreadIds :
                lself[t] = w =>
                    /\ ~InLoop(t)
                    /\ \A i \in 1..Len(taken[t]) : JobRunToEnd(taken[t][i])

\* the step ends the processing of the job thread t holds, and that processing
\* raised an exception: in a pipeline step (caught by _process_job's except
\* clause) or before the try, by a payload without a field _process_job reads
EndsRaisedJob(t) ==
    /\ ljob[t] # NoJob
    /\ ljob'[t] = NoJob
    /\ exc[t] # NoExc \/ ~HasFields(ljob[t].data)

\* a thread leaves _worker_loop only through its while test, with running False
ExitsOnlyWhenStopped(t) ==
    (lpc'[t] = "exited" /\ lpc[t] # "exited") =>
        (lpc[t] = "while" /\ ~running[lself[t]])

\* at get_next_job with a job in the queue, the loop takes the head of the queue
TakesNextJob(t) ==
    (lpc[t] = "get" /\ lpc'[t] # "get" /\ queue # <<>>) =>
        (ljob'[t].id = Head(queue).id /\ lpc'[t] = "pj_fields")

\* C11 as stated: an exception raised while a job is processed never ends the
\* worker loop; it is caught, the loop pauses (time.sleep(5)), and the jobs in
\* the queue go on being dequeued.
C11_CaughtPausedContinues ==
    [][\A t \in ThreadIds :
          /\ ExitsOnlyWhenStopped(t)
          /\ EndsRaisedJob(t) => lpc'[t] = "sleep5"
          /\ (lpc[t] = "sleep5" /\ lpc'[t] # "sleep5") => lpc'[t] = "while"
          /\ TakesNextJob(t)]_vars

\* C11, amended: an exception raised while a job is processed never ends the
\* worker loop. One that escapes _process_job (a payload without a required
\* field) is caught by the loop, which pauses and then tests its while
\* condition again; one raised by a pipeline step is caught inside
\* _process_job, and the loop goes on to its while test without a pause.
\* Either way the loop then takes the jobs left in the queue.
C11_ExceptionNeverEndsLoop ==
    [][\A t \in ThreadIds :
          /\ ExitsOnlyWhenStopped(t)
          /\ EndsRaisedJob(t) =>
                 lpc'[t] = IF HasFields(ljob[t].data) THEN "while" ELSE "sleep5"
          /\ (lpc[t] = "sleep5" /\ lpc'[t] # "sleep5") => lpc'[t] = "while"
          /\ TakesNextJob(t)]_vars

\* a loop has ended job 1, whose payload lacked the fields, and after it job 2,
\* whose success webhook it posted
C11_Witness ==
    \E t \in ThreadIds :
        /\ taken[t] = <<1, 2>>
        /\ ~HasFields(appended[1].data)
        /\ {1, 2} \subseteq ended
        /\ Len(hooks[2]) = 1
        /\ hooks[2][1].status = "success"

\* every pipeline step of the job thread t holds was begun and none raised
AllStepsSucceeded(t) ==
    /\ exc[t] = NoExc
    /\ {"download", "upload"} \subseteq steps[ljob[t].id]

\* C12: every job the worker dequeued gets exactly one webhook attempt: once
\* its processing is over (the webhook step done, or the call ended) one POST
\* has been attempted for it, never two and never none; it is a success
\* notification if and only if download, conversion, transformation and upload
\* all succeeded, and an error notification otherwise.
C12_ExactlyOneWebhook ==
    /\ \A id \in JobIds : Len(hooks[id]) <= 1
    /\ \A id \in ended : Len(hooks[id]) = 1
    /\ \A t \in ThreadIds :
           lpc[t] = "pj_cleanup" =>
               /\ Len(posted[t]) = 1
               /\ posted[t][1].url = ljob[t].data.webhook_url
               /\ posted[t][1].body.status =
                      IF AllStepsSucceeded(t) THEN "success" ELSE "error"

\* the last POST of the job thread t holds has failed
FailedPost(t) == posted[t] # <<>> /\ ~posted[t][Len(posted[t])].ok

\* C13: a webhook notification is one POST, never retried, and its failure is
\* never raised: once the POST of a job has failed (success or error
\* notification alike) it stays the job's only POST, the job goes on to its
\* cleanup, which removes its temporary files, and the loop returns to its
\* while test to take the next job; no job ever gets a second notification.
C13_States ==
    /\ \A id \in JobIds : Len(hooks[id]) <= 1
    /\ \A t \in ThreadIds :
           FailedPost(t) => /\ Len(posted[t]) = 1
                            /\ Len(hooks[ljob[t].id]) = 1
                            /\ lpc[t] = "pj_cleanup"

C13_Steps ==
    \A t \in ThreadIds :
        (FailedPost(t) /\ lpc'[t] # lpc[t]) =>
            /\ lpc'[t] = "while"
            /\ hooks' = hooks
            /\ ljob[t].id \in ended'
            /\ \A f \in fs' : f[1] # ljob[t].id

FilesOf(id) == {f \in fs : f[1] = id}

DownloadFailed(t) == exc[t].at = "download"

\* C15: a job whose download fails never reaches the submission, the
\* transformation or the upload, and its error webhook carries the message of
\* the download failure and no document_id: null in the body, and no
\* document_id query parameter on the notification URL.
C15_States ==
    \A t \in ThreadIds :
        DownloadFailed(t) =>
            /\ steps[ljob[t].id] = {"download"}
            /\ exc[t].msg \in DownloadErrors
            /\ lpc[t] \in {"pj_error", "pj_cleanup"}
            /\ lpc[t] = "pj_cleanup" =>
                   /\ Len(posted[t]) = 1
                   /\ posted[t][1].url = ljob[t].data.webhook_url
                   /\ posted[t][1].query = "none"
                   /\ posted[t][1].body.status = "error"
                   /\ posted[t][1].body.message = exc[t].msg
                   /\ posted[t][1].body.document_id = "none"
                   /\ hooks[ljob[t].id] =
                          <<[status |-> "error", document_id |-> "none",
                             url_document_id |-> "none"]>>

\* what is recorded of a job that has ended never changes: no later step of the
\* pipeline, no later webhook
C15_Steps ==
    \A id \in ended : steps'[id] = steps[id] /\ hooks'[id] = hooks[id]

C15_DownloadFailureStopsJob == []C15_States /\ [][C15_Steps]_vars

\* the error webhook of a job whose download failed has been posted
C15_Witness ==
    \E t \in ThreadIds :
        /\ DownloadFailed(t)
        /\ lpc[t] = "pj_cleanup"
        /\ posted[t][1].body.message = <<"File", "not", "found", "in", "S3">>

\* the gateway gave the document of the job thread t holds an id and then
\* reported the status FAILED to a poll
FailedAfterIssue(t) ==
    /\ issued[t] # "none"
    /\ exc[t] = Raised("remote", PollFailure("FAILED"))

\* C16: when the gateway has issued a document id for the job and then reports
\* the status failed, the body of the error webhook has status "error", a
\* message containing "failed", the original file name, and as document_id the
\* id the gateway issued.
C16_IssuedIdReported ==
    \A t \in ThreadIds :
        (FailedAfterIssue(t) /\ lpc[t] = "pj_cleanup") =>
            /\ Len(posted[t]) = 1
            /\ posted[t][1].body.status = "error"
            /\ Contains(posted[t][1].body.message, "failed")
            /\ posted[t][1].body.original_filename = BaseName(ljob[t].data.s3_key)
            /\ posted[t][1].body.document_id = issued[t]

\* name is the base name of key: what is left of key after its last "/"
IsBaseNameOf(name, key) ==
    \E n \in 0..Len(key) :
        /\ name = SubSeq(key, n + 1, Len(key))
        /\ \A i \in (n + 1)..Len(key) : key[i] # "/"
        /\ n > 0 => key[n] = "/"

\* ext is an extension of a file name that starts with stem: a "." followed by
\* characters other than ".", after a stem that is not made of "." only
IsExtension(stem, ext) ==
    /\ ext # <<>>
    /\ ext[1] = "."
    /\ \A i \in 2..Len(ext) : ext[i] # "."
    /\ \E i \in 1..Len(stem) : stem[i] # "."

\* stem is name without its extension
IsStemOf(stem, name) ==
    \E n \in 0..Len(name) :
        /\ stem = SubSeq(name, 1, n)
        /\ \/ IsExtension(stem, SubSeq(name, n + 1, Len(name)))
           \/ /\ n = Len(name)
              /\ \A m \in 0..Len(name) :
                     ~IsExtension(SubSeq(name, 1, m), SubSeq(name, m + 1, Len(name)))

\* the upload and the success webhook of a job whose steps all succeeded, the
\* URL of the upload being in the field url_field of the webhook body
SuccessDelivered(t, url_field) ==
    LET data == ljob[t].data
        call == posted[t][1]
    IN  /\ dest[t].bucket = data.s3_bucket
        /\ \E name \in {BaseName(data.s3_key)} :
              /\ IsBaseNameOf(name, data.s3_key)
              /\ call.body.original_filename = name
              /\ \E n \in 0..Len(name) :
                    /\ IsStemOf(SubSeq(name, 1, n), name)
                    /\ dest[t].key = <<"processed/">> \o SubSeq(name, 1, n) \o <<".csv">>
        /\ Len(posted[t]) = 1
        /\ call.url = data.webhook_url
        /\ issued[t] # "none"
        /\ call.query = issued[t]
        /\ DOMAIN call.body =
               {"status", url_field, "original_filename", "document_id"}
        /\ call.body.status = "success"
        /\ call.body[url_field] = UploadUrl(dest[t].bucket, dest[t].key)
        /\ call.body.document_id = issued[t]

ProcessingType(data) ==
    IF "processing_type" \in DOMAIN data THEN data.processing_type ELSE "markdown"

\* the client calls made for job id beyond the download and the upload
CallsOf(id) == steps[id] \ {"download", "upload"}

\* C18: the worker selects the remote processing mode from the job's
\* processing_type flag: a job flagged "json" is submitted through
\* process_pdf_insurance_direct and never goes through markdown_to_csv; a job
\* flagged "markdown", or not flagged, is submitted through process_pdf_direct
\* and parsed by markdown_to_csv.
C18_ModeFromProcessingType ==
    \A id \in 1..Len(appended) :
        IF ProcessingType(appended[id].data) = "json"
        THEN CallsOf(id) \subseteq {"process_pdf_insurance_direct"}
        ELSE CallsOf(id) \subseteq {"process_pdf_direct", "markdown_to_csv"}

\* the handler has read the environment and a required credential was not set
CredentialMissing ==
    rpc \in {"test", "add", "done"} /\ ~(RequiredVars \subseteq renv)

\* C19: when a required credential (AWS_ACCESS_KEY_ID, AWS_SECRET_ACCESS_KEY or
\* DOCTLY_API_KEY) is missing, the /parse handler itself answers with the
\* configuration error (status 500, naming the missing variables) and never
\* reaches add_job: no step of the rejected request changes the queue or the
\* id counter.
C19_States ==
    CredentialMissing =>
        /\ rpc \in {"test", "done"}
        /\ rpc = "done" => resp = ConfigError(RequiredVars \ renv)

C19_Steps ==
    (rpc' # rpc /\ (CredentialMissing \/ rpc \in {"idle", "getenv"})) =>
        UNCHANGED <<queue, job_counter, appended>>

C19_MissingCredentialRejected == []C19_States /\ [][C19_Steps]_vars

\* with only DOCTLY_API_KEY missing the request was rejected, a job of an
\* earlier request being in the queue
C19_Witness ==
    /\ rpc = "done"
    /\ renv = {"AWS_ACCESS_KEY_ID", "AWS_SECRET_ACCESS_KEY"}
    /\ resp.status_code = 500
    /\ Len(queue) = 1

\* the job carries the bucket, the key and the notification URL of the request
Carries(j, r) ==
    /\ j.data.s3_bucket = r.s3_bucket
    /\ j.data.s3_key = r.s3_key
    /\ j.data.webhook_url = r.webhook_url

\* C20: an accepted /parse request enqueues exactly one job, which carries the
\* request's bucket, key and notification URL, and returns {status "queued",
\* position} without waiting for any step of the worker: whatever the worker
\* is doing, the next step of the handler can be taken.
C20_States ==
    /\ rpc # "idle" => ENABLED ParseStep
    /\ (rpc = "done" /\ resp.status_code = 200) =>
           /\ resp.status = "queued"
           /\ resp.position >= 1
           /\ Carries(appended[Len(appended)], req)

C20_Steps ==
    /\ (rpc = "test" /\ rpc' # rpc /\ missing_vars = {}) => rpc' = "add"
    /\ (rpc = "add" /\ rpc' # rpc) =>
           /\ rpc' = "done"
           /\ Len(queue') = Len(queue) + 1
           /\ SubSeq(queue', 1, Len(queue)) = queue
           /\ Carries(queue'[Len(queue')], req)
           /\ queue'[Len(queue')].status = "queued"
           /\ appended' = Append(appended, queue'[Len(queue')])
           /\ job_counter' = job_counter + 1
           /\ resp' = Queued(Len(queue'))
    /\ (rpc # "add" /\ rpc' # rpc) => UNCHANGED <<queue, job_counter, appended>>

C20_AcceptedRequestQueued == []C20_States /\ [][C20_Steps]_vars

\* the second request was answered "queued" at position 1 while the worker was
\* inside the pipeline of the first job
C20_Witness ==
    /\ rpc = "done"
    /\ resp.status_code = 200
    /\ resp.position = 1
    /\ job_counter = 2
    /\ \E t \in ThreadIds : InJob(t) /\ ljob[t].id = 1

\* the jobs taken out of the deque so far
Dequeued == Len(returned) + Cardinality({t \in Consumers : Holding(t)})

\* the value a size() or get_queue_status() call is about to return
C24_States ==
    mpc = "mon_return" =>
        /\ snap.call \in {"size", "get_queue_status"} => snap.size = Len(queue)
        /\ snap.call = "get_queue_status" =>
               /\ snap.total_jobs_processed = Len(added)
               /\ snap.total_jobs_processed = snap.size + Dequeued
               /\ queue = <<>> => snap.oldest_job_age = 0
               /\ queue # <<>> =>
                      /\ snap.oldest_job_age <= now - Head(queue).created_at
                      /\ snap.oldest_job_age >= 0

\* the total get_queue_status would report never decreases, and no step of a
\* get_next_job call changes it
C24_Steps ==
    LET total == QueueStatus(queue).total_jobs_processed IN
    /\ total' >= total
    /\ (\E t \in Consumers : pc[t] # "idle" /\ pc'[t] # pc[t]) => total' = total

\* C24: size() and get_queue_status() report as size the current number of
\* pending jobs; get_queue_status reports as total the number of add_job calls
\* made so far, which is the pending size plus the number of jobs already
\* dequeued, never decreases and is not changed by get_next_job; the
\* oldest-pending age it reports is 0 when the queue is empty.
C24_StatsSnapshot == []C24_States /\ [][C24_Steps]_vars

\* get_queue_status is about to return a snapshot taken after two add_job
\* calls and one get_next_job call, of a job that has waited one unit of time
C24_Witness ==
    /\ mpc = "mon_return"
    /\ snap.call = "get_queue_status"
    /\ snap.total_jobs_processed = 2
    /\ snap.size = 1
    /\ Len(returned) = 1
    /\ snap.oldest_job_age = 1

\* the job the handler's add_job call appended last carries the request's three
\* fields
LastCarries(r) ==
    /\ appended # <<>>
    /\ HasFields(appended[Len(appended)].data)
    /\ appended[Len(appended)].data.s3_bucket = r.s3_bucket
    /\ appended[Len(appended)].data.s3_key = r.s3_key
    /\ appended[Len(appended)].data.webhook_url = r.webhook_url

\* C21: /parse and /parse-json are both asynchronous submissions: the response
\* to an accepted request (the required variables are set) has status "queued"
\* and a queue position, and the request has added a job that carries its
\* fields, the job of /parse-json with processing_type "json".
C21_BothEndpointsQueue ==
    /\ rpc = "done" /\ missing_vars = {} =>
           /\ resp.status_code = 200
           /\ resp.status = "queued"
           /\ resp.position >= 1
           /\ LastCarries(req)
    /\ rpc = "js_done" /\ missing_vars = {} =>
           /\ resp.status_code = 200
           /\ resp.status = "queued"
           /\ resp.position >= 1
           /\ LastCarries(req)
           /\ ProcessingType(appended[Len(appended)].data) = "json"

\* the conversion pipelines in execution: the loop threads inside
\* _process_job, and the /parse-json handler inside its inner try block
PipelinesRunning ==
    Cardinality({t \in ThreadIds : InJob(t)}) + (IF InHandlerPipeline THEN 1 ELSE 0)

\* C22: at no time are two conversion pipelines executing concurrently in the
\* process, and no two upload steps for the same destination bucket and key
\* are in execution at once.
C22_OnePipelineAtATime ==
    /\ PipelinesRunning <= 1
    /\ \A t \in ThreadIds :
          ~(/\ lpc[t] = "pj_upload"
            /\ rpc = "js_upload"
            /\ CsvKey(ljob[t].data.s3_key) = CsvKey(req.s3_key)
            /\ ljob[t].data.s3_bucket = req.s3_bucket)

\* the job with this id is waiting in the queue
InQueue(id) == \E n \in 1..Len(queue) : queue[n].id = id

\* C23: with the worker loop running and fairly scheduled and every external
\* call returning or raising, every job in the queue is eventually dequeued and
\* reaches its end, with one notification attempted for it.
C23_EveryJobEnds ==
    \A id \in JobIds : InQueue(id) ~> (id \in ended /\ Len(hooks[id]) = 1)

\* the statuses reported to the poll of thread t are k non-terminal ones
\* followed by COMPLETED
PendingThenCompleted(t, k) ==
    /\ Len(poll[t].reports) = k + 1
    /\ poll[t].reports[k + 1].status = "COMPLETED"
    /\ \A i \in 1..k : poll[t].reports[i].status \in NonTerminal

\* the poll of thread t is fetching the result or has returned it
FetchingOrReturned(t) ==
    lpc[t] \in {"poll_fetch", "poll_fallback"} \/ poll[t].outcome = "returned"

C25_States ==
    \A t \in ThreadIds : \A k \in 0..MaxWaitTime :
        PendingThenCompleted(t, k) /\ FetchingOrReturned(t) =>
            /\ poll[t].sleeps = k
            /\ poll[t].outcome = "returned" =>
                   /\ poll[t].fetches \in {1, 2}
                   /\ lpc[t] = "pj_parse" => exc[t] = NoExc
                   /\ document_id[t] = issued[t]

\* the step on which the result is fetched ends the call without a sleep
C25_Steps ==
    \A t \in ThreadIds :
        poll[t].outcome = "none" /\ poll'[t].outcome = "returned" =>
            /\ lpc'[t] = "pj_parse"
            /\ poll'[t].sleeps = poll[t].sleeps
            /\ now' = now

\* C25: when the status queries of poll_until_complete are answered by k
\* non-terminal statuses (PENDING, PROCESSING) and then COMPLETED, and the result
\* is fetched, the call has slept exactly k times and returns the result; for
\* PENDING, PENDING, COMPLETED it sleeps exactly twice.
C25_SleepsThenReturns == []C25_States /\ [][C25_Steps]_vars

\* PENDING, PENDING, COMPLETED: two sleeps and the result returned
C25_Witness ==
    \E t \in ThreadIds :
        /\ PendingThenCompleted(t, 2)
        /\ poll[t].reports[1].status = "PENDING"
        /\ poll[t].reports[2].status = "PENDING"
        /\ poll[t].outcome = "returned"
        /\ poll[t].sleeps = 2
        /\ lpc[t] = "pj_parse"

\* the i-th status report to the poll of thread t is FAILED or EXPIRED
TerminalFailureAt(t, i) ==
    /\ i \in 1..Len(poll[t].reports)
    /\ poll[t].reports[i].status \in {"FAILED", "EXPIRED"}

\* C26: a status report of FAILED or EXPIRED, after any number of earlier
\* reports, ends the poll at once: it is the last status query, no sleep follows
\* it, the call raises "Doctly document Document processing failed" (or
\* expired), and that exception reaches the except clause of the pipeline, whose
\* one webhook is the error webhook with this message.
C26_TerminalFailureRaisesAtOnce ==
    \A t \in ThreadIds : \A i \in 1..Len(poll[t].reports) :
        TerminalFailureAt(t, i) =>
            /\ i = Len(poll[t].reports)
            /\ poll[t].sleeps = i - 1
            /\ poll[t].outcome = "raised"
            /\ exc[t] = Raised("remote", PollFailure(poll[t].reports[i].status))
            /\ lpc[t] \in {"pj_error", "pj_cleanup"}
            /\ lpc[t] = "pj_cleanup" =>
                   /\ Len(posted[t]) = 1
                   /\ posted[t][1].body.status = "error"
                   /\ posted[t][1].body.message =
                          PollFailure(poll[t].reports[i].status)

\* PENDING, then EXPIRED: the error webhook is out after one sleep
C26_Witness ==
    \E t \in ThreadIds :
        /\ Len(poll[t].reports) = 2
        /\ poll[t].reports[1].status = "PENDING"
        /\ poll[t].reports[2].status = "EXPIRED"
        /\ poll[t].sleeps = 1
        /\ lpc[t] = "pj_cleanup"
        /\ posted[t][1].body.message =
               <<"Doctly", "document", "Document", "processing", "expired">>

\* the poll of thread t has ended and no status query of it was answered
\* COMPLETED, FAILED or EXPIRED
EndedNeverTerminal(t) ==
    /\ poll[t].outcome # "none"
    /\ \A i \in 1..Len(poll[t].reports) :
          poll[t].reports[i].status \notin {"COMPLETED", "FAILED", "EXPIRED"}

\* C27: a poll during which the remote status never reaches a terminal state
\* ends by raising the timeout error; the timeout is raised only with at least
\* max_wait_time elapsed since the poll began, and no status query is started
\* with max_wait_time or more elapsed.
C27_TimeoutAtMaxWait ==
    \A t \in ThreadIds :
        /\ EndedNeverTerminal(t) => poll[t].outcome = "timeout"
        /\ poll[t].outcome = "timeout" => poll[t].elapsed >= MaxWaitTime
        /\ \A i \in 1..Len(poll[t].reports) :
              poll[t].reports[i].elapsed < MaxWaitTime

\* C28: a status request that fails (an exception instead of a status) does
\* not end the poll: the loop sleeps and queries again, or the maximum wait
\* elapses.
C28_TransientErrorRetried ==
    \A t \in ThreadIds : \A i \in 1..Len(poll[t].reports) :
        poll[t].reports[i].status = "ERROR" =>
            \/ i < Len(poll[t].reports)
            \/ lpc[t] \in {"poll_sleep", "poll_while", "poll_status"}
            \/ poll[t].outcome = "timeout"

\* C29: a COMPLETED report is the last status query of the poll; the result
\* is requested at most twice, and when both requests fail the poll ends by
\* raising the error of the first.
C29_CompletedIsTerminal ==
    \A t \in ThreadIds :
        /\ \A i \in 1..Len(poll[t].reports) :
              poll[t].reports[i].status = "COMPLETED" => i = Len(poll[t].reports)
        /\ poll[t].fetches <= 2
        /\ (/\ poll[t].fetches = 2
            /\ lpc[t] # "poll_fallback"
            /\ poll[t].outcome # "returned") =>
               /\ poll[t].outcome = "raised"
               /\ exc[t] = Raised("fetch", poll[t].first_error)

\* the lines of a document that end up as rows of the result: table rows with
\* the winning number of cells, but for a textual first one, which is the header
UsableRows(md) ==
    LET wide == {i \in 1..Len(md) : ~md[i].divider /\ md[i].cols >= 4}
        tally(c) == Cardinality({i \in wide : md[i].cols = c})
        first(c) == CHOOSE i \in wide : md[i].cols = c /\ \A j \in wide : md[j].cols = c => i <= j
        wins(c) == \A i \in wide : md[i].cols # c =>
                       \/ tally(c) > tally(md[i].cols)
                       \/ tally(c) = tally(md[i].cols) /\ first(c) < i
        kept == {i \in wide : wins(md[i].cols)}
    IN  {i \in kept : ~(md[i].textual /\ \A j \in kept : i <= j)}

\* markdown_to_csv raises for the documents without usable rows, and for no
\* other; the CSV text has a header line and a line for each usable row
RaisesWithoutUsableRows ==
    \A md \in Markdowns :
        /\ UsableRows(md) = {} => MarkdownToCsv(md).raised
        /\ UsableRows(md) # {} =>
               /\ ~MarkdownToCsv(md).raised
               /\ MarkdownToCsv(md).lines = 1 + Cardinality(UsableRows(md))

\* the job thread t holds failed in its transformation or in its upload
FailedAfterConversion(t) == exc[t].at \in {"parse", "upload"}

\* C30: a job whose remote conversion succeeded and whose transformation
\* raises, as it does for every document without usable rows, or whose upload
\* fails, sends no success webhook; its one webhook is the error webhook, with
\* the document id the gateway issued in the body and as the document_id query
\* parameter; after a failed transformation no upload is attempted.
C30_LateFailureCarriesDocumentId ==
    /\ RaisesWithoutUsableRows
    /\ \A t \in ThreadIds :
          FailedAfterConversion(t) =>
              /\ lpc[t] \in {"pj_error", "pj_cleanup"}
              /\ issued[t] = DocId
              /\ document_id[t] = issued[t]
              /\ \A n \in 1..Len(hooks[ljob[t].id]) :
                    hooks[ljob[t].id][n].status # "success"
              /\ exc[t].at = "parse" =>
                     /\ "upload" \notin steps[ljob[t].id]
                     /\ dest[t] = NoDest
              /\ lpc[t] = "pj_cleanup" =>
                     /\ Len(posted[t]) = 1
                     /\ posted[t][1].url = ljob[t].data.webhook_url
                     /\ posted[t][1].query = issued[t]
                     /\ posted[t][1].body.status = "error"
                     /\ posted[t][1].body.document_id = issued[t]
                     /\ posted[t][1].body.message = exc[t].msg

\* the error webhook of a job whose document had a header line and no row
C30_Witness ==
    \E t \in ThreadIds :
        /\ lpc[t] = "pj_cleanup"
        /\ exc[t] = Raised("parse", <<"Failed", "to", "parse", "markdown",
                                      "Successfully parsed.">>)
        /\ posted[t][1].query = DocId
        /\ posted[t][1].body.document_id = DocId
        /\ "upload" \notin steps[ljob[t].id]

\* the ids of the jobs in a deque, and the ids the loops dequeued so far
IdsIn(q) == {q[i].id : i \in 1..Len(q)}
TakenIds == UNION {{taken[t][i] : i \in 1..Len(taken[t])} : t \in ThreadIds}

\* no job is in the deque once a loop dequeued it, no id was dequeued twice,
\* and a job whose _process_job call ended is held by no loop
C31_States ==
    /\ TakenIds \cap IdsIn(queue) = {}
    /\ \A t \in ThreadIds : \A u \in ThreadIds :
          \A i \in 1..Len(taken[t]) : \A k \in 1..Len(taken[u]) :
              taken[t][i] = taken[u][k] => t = u /\ i = k
    /\ \A t \in ThreadIds : ljob[t] # NoJob => ljob[t].id \notin ended
    /\ ended \subseteq TakenIds

\* the deque changes only by losing its head or by gaining a job with a new
\* id at its tail; a job that ended stays ended, and no pipeline step and no
\* webhook is begun for it any more
C31_Steps ==
    /\ \/ queue' = queue
       \/ queue # <<>> /\ queue' = Tail(queue)
       \/ /\ Len(queue') = Len(queue) + 1
          /\ SubSeq(queue', 1, Len(queue)) = queue
          /\ queue'[Len(queue')].id \notin TakenIds \cup IdsIn(queue)
    /\ ended \subseteq ended'
    /\ \A id \in ended : steps'[id] = steps[id] /\ hooks'[id] = hooks[id]

\* C31: a job leaves the queue for good when it is dequeued: no step puts a
\* dequeued job back, every job id is dequeued and processed at most once, and
\* a job that failed, or was lost to an exception, is not run again.
C31_DequeuedForGood == []C31_States /\ [][C31_Steps]_vars

\* a loop has its second job in hand after the first failed with an error
\* webhook, and more jobs wait in the queue
C31_Witness ==
    \E t \in ThreadIds :
        /\ Len(taken[t]) = 2
        /\ InJob(t)
        /\ taken[t][1] \in ended
        /\ Len(hooks[taken[t][1]]) = 1
        /\ hooks[taken[t][1]][1].status = "error"

\* the jobs waiting in the deque are untouched: status "queued", no started_at;
\* the jobs get_next_job returned are marked
C32_States ==
    /\ \A i \in 1..Len(queue) :
          queue[i].status = "queued" /\ queue[i].started_at = <<>>
    /\ \A i \in 1..Len(returned) :
          returned[i].status = "processing" /\ returned[i].started_at # <<>>

\* what a step of add_job, of get_next_job and of the three read-only methods
\* leaves alone
C32_Steps ==
    /\ \A t \in Producers : pc'[t] # pc[t] =>
          /\ Len(queue') >= Len(queue)
          /\ SubSeq(queue', 1, Len(queue)) = queue
    /\ \A t \in Consumers : pc'[t] # pc[t] =>
          /\ job_counter' = job_counter
          /\ \/ queue' = queue
             \/ queue # <<>> /\ queue' = Tail(queue) /\ job'[t] = Head(queue)
    /\ mpc' # mpc => UNCHANGED <<queue, job_counter, job, appended, returned>>
    /\ \A t \in Callers :
          (job[t] # NoJob /\ job'[t] # NoJob /\ job'[t] # job[t]) =>
              /\ t \in Consumers
              /\ pc[t] = "get_mark"
              /\ job[t].id \notin IdsIn(queue)
              /\ job'[t] = [job[t] EXCEPT !.status = job'[t].status,
                                          !.started_at = job'[t].started_at]
              /\ job'[t].status = "processing"

\* C32: status and started_at of a job are changed only by the get_next_job
\* call that removed it; add_job leaves the jobs already in the queue, fields
\* and order, unchanged; get_next_job leaves the remaining jobs and the id
\* counter unchanged; size, is_empty and get_queue_status change nothing.
C32_OnlyDequeueMarks == []C32_States /\ [][C32_Steps]_vars

\* get_next_job has marked the job it removed while another job waits, and
\* the monitoring thread is inside is_empty
C32_Witness ==
    /\ pc["c1"] = "get_return"
    /\ job["c1"].status = "processing"
    /\ Len(queue) >= 1
    /\ mpc = "empty_acquire"
    /\ Len(added) >= 2

\* ceil(a / b)
CeilDiv(a, b) == (a + b - 1) \div b

\* the thread is inside poll_until_complete
InPoll(t) ==
    lpc[t] \in {"poll_while", "poll_status", "poll_sleep", "poll_fetch", "poll_fallback"}

\* the worker is started once: the first Thread object is the only one that
\* ever runs the loop
OneLoopThread == \A t \in ThreadIds : t # 1 => lpc[t] = "none"

\* the call has made at most ceil(max_wait_time / poll_interval) status
\* queries, and it is over exactly when it has an outcome
C33_States ==
    \A t \in ThreadIds :
        /\ Len(poll[t].reports) <= CeilDiv(MaxWaitTime, PollInterval)
        /\ InPoll(t) => poll[t].outcome = "none"
        /\ poll[t].outcome \in {"none", "returned", "raised", "timeout"}
        /\ poll[t].outcome = "returned" =>
               exc[t].at \notin {"status", "remote", "fetch", "timeout"}
        /\ poll[t].outcome = "raised" => exc[t].at \in {"status", "remote", "fetch"}
        /\ poll[t].outcome = "timeout" => exc[t] = Raised("timeout", PollTimeout)

\* C33: with a positive poll interval poll_until_complete ends whatever the
\* gateway answers (non-terminal and unknown statuses, query errors, failed
\* fetches): it returns a result, raises a failure or raises the timeout,
\* after at most ceil(max_wait_time / poll_interval) status queries.
C33_PollTerminates ==
    /\ []C33_States
    /\ []OneLoopThread
    /\ InPoll(1) ~> poll[1].outcome \in {"returned", "raised", "timeout"}

\* the timeout is raised after as many queries as the bound allows, among
\* them an unknown status, a query error and a COMPLETED whose fetch failed
C33_Witness ==
    \E t \in ThreadIds :
        /\ poll[t].outcome = "timeout"
        /\ Len(poll[t].reports) = CeilDiv(MaxWaitTime, PollInterval)
        /\ \E i \in 1..Len(poll[t].reports) : poll[t].reports[i].status = "QUEUED"
        /\ \E i \in 1..Len(poll[t].reports) : poll[t].reports[i].status = "ERROR"
        /\ \E i \in 1..Len(poll[t].reports) : poll[t].reports[i].status = "COMPLETED"

\* a status the loop does not know: status_data.get('status', '').upper() is
\* none of the five it tests for
Unknown(status) ==
    status \notin {"PENDING", "PROCESSING", "COMPLETED", "FAILED", "EXPIRED", "ERROR"}

\* the last status the call of thread t was given is an unknown one
LastUnknown(t) ==
    /\ poll[t].reports # <<>>
    /\ Unknown(poll[t].reports[Len(poll[t].reports)].status)

\* after an unknown status the call is sleeping, back at the loop guard, about
\* to query again, or ended by the timeout; it has neither returned nor raised a failure, and it
\* has slept once for every report before the last
C34_States ==
    \A t \in ThreadIds :
        LastUnknown(t) =>
            /\ poll[t].outcome \in {"none", "timeout"}
            /\ poll[t].outcome = "none" =>
                   lpc[t] \in {"poll_sleep", "poll_while", "poll_status"}
            /\ lpc[t] \in {"poll_while", "poll_status"} =>
                   poll[t].sleeps = Len(poll[t].reports)
            /\ poll[t].outcome = "timeout" => poll[t].elapsed >= MaxWaitTime
            /\ poll[t].fetches = 0 \/ \E i \in 1..Len(poll[t].reports) :
                                         poll[t].reports[i].status = "COMPLETED"
            /\ poll[t].sleeps >= Len(poll[t].reports) - 1

\* the report of an unknown status sends the call to time.sleep, the sleep
\* lasts the poll interval, and after it the loop guard is tested: the next
\* query follows unless max_wait_time has elapsed
C34_Steps ==
    \A t \in ThreadIds :
        /\ (lpc[t] = "poll_status" /\ lpc'[t] # lpc[t] /\ LastUnknown(t)') =>
               /\ lpc'[t] = "poll_sleep"
               /\ exc'[t] = NoExc
               /\ poll'[t].outcome = "none"
        /\ (lpc[t] = "poll_sleep" /\ lpc'[t] # lpc[t]) =>
               /\ lpc'[t] = "poll_while"
               /\ now' = now + PollInterval
               /\ poll'[t].sleeps = poll[t].sleeps + 1
        /\ (lpc[t] = "poll_while" /\ lpc'[t] # lpc[t]) =>
               IF now - poll[t].start_time < MaxWaitTime
               THEN lpc'[t] = "poll_status"
               ELSE poll'[t].outcome = "timeout"

\* C34: a status outside PENDING, PROCESSING, COMPLETED, FAILED and EXPIRED,
\* a missing status included, is non-terminal for the poll loop: it sleeps the
\* poll interval and queries again, and the call neither returns a result nor
\* raises a failure on that report.
C34_UnknownStatusNonTerminal == []C34_States /\ [][C34_Steps]_vars

\* an answer without status, then an unknown status, then COMPLETED: the call
\* slept twice and returned
C34_Witness ==
    \E t \in ThreadIds :
        /\ Len(poll[t].reports) = 3
        /\ poll[t].reports[1].status = ""
        /\ poll[t].reports[2].status = "QUEUED"
        /\ poll[t].reports[3].status = "COMPLETED"
        /\ poll[t].sleeps = 2
        /\ poll[t].outcome = "returned"

\* ---- the worker stopped and started again
\* a request handler calls add_job while no worker loop is running: before the
\* first start, or after a stop has ended the loop
RestartAddJob ==
    /\ \A t \in ThreadIds : ~InLoop(t)
    /\ job_counter < MaxWorkerJobs
    /\ AddJobOf(Doc)

\* the thread creation of Worker.start in SpecRestart
RestartStartNew(k) == nthreads < MaxRestartThreads /\ StartNew(k)

\* one control thread calls start_background_worker, Worker.start and
\* Worker.stop in any order; the loop thread, once started, goes on. The jobs
\* carry every field, so no exception leaves _process_job and the loop never
\* reaches its except clause
RestartNext ==
    \/ RestartAddJob
    \/ \E t \in ThreadIds : LoopWhile(t)
    \/ \E t \in ThreadIds : LoopGet(t)
    \/ \E t \in ThreadIds : LoopSleep1(t)
    \/ \E t \in ThreadIds : PjFields(t)
    \/ \E t \in ThreadIds : PjDownload(t)
    \/ \E t \in ThreadIds : PjDoctly(t)
    \/ \E t \in ThreadIds : PjPoll(t)
    \/ \E t \in ThreadIds : PjParse(t)
    \/ \E t \in ThreadIds : PjUpload(t)
    \/ \E t \in ThreadIds : PjSuccess(t)
    \/ \E t \in ThreadIds : PjError(t)
    \/ \E t \in ThreadIds : PjCleanup(t)
    \/ \E k \in OneCtl : SbwCall(k)
    \/ \E k \in OneCtl : SbwTest(k)
    \/ \E k \in OneCtl : SbwNew(k)
    \/ \E k \in OneCtl : SbwStart(k)
    \/ \E k \in OneCtl : WStartCall(k)
    \/ \E k \in OneCtl : StartTest(k)
    \/ \E k \in OneCtl : StartSet(k)
    \/ \E k \in OneCtl : RestartStartNew(k)
    \/ \E k \in OneCtl : StartRun(k)
    \/ \E k \in OneCtl : WStopCall(k)
    \/ \E k \in OneCtl : StopSet(k)
    \/ \E k \in OneCtl : StopTest(k)
    \/ \E k \in OneCtl : StopRead(k)
    \/ \E k \in OneCtl : StopJoin(k)

SpecRestart ==
    Init /\ [][RestartNext]_vars /\ WF_vars(\E t \in ThreadIds : LoopStep(t))

\* some thread is executing the worker loop
LoopRunning == \E t \in ThreadIds : InLoop(t)

\* the jobs come out in the order they went in, the deque holds the jobs not
\* yet dequeued as add_job built them, and a job is in hand only when every
\* job added before it has ended
C35_States ==
    /\ Len(returned) <= Len(appended)
    /\ \A i \in 1..Len(returned) :
          returned[i] = [appended[i] EXCEPT !.status = "processing",
                                            !.started_at = returned[i].started_at]
    /\ queue = SubSeq(appended, Len(returned) + 1, Len(appended))
    /\ \A t \in ThreadIds : InJob(t) =>
          \A id \in 1..(ljob[t].id - 1) : id \in ended

\* while no loop is running nothing is dequeued and the deque only grows at
\* its tail, and no step of a start or a stop changes the deque
C35_Steps ==
    /\ ~LoopRunning =>
          /\ returned' = returned
          /\ Len(queue') >= Len(queue)
          /\ SubSeq(queue', 1, Len(queue)) = queue
    /\ cpc' # cpc => queue' = queue /\ job_counter' = job_counter

\* C35: enqueueing does not depend on the worker's lifecycle: jobs added
\* while no loop is running, before a start or after a stop, stay in the queue
\* unchanged and in order, and once a loop runs they are dequeued and
\* processed in the order they were added: a loop that goes on running
\* empties the queue.
C35_QueueOutlivesWorker ==
    /\ []C35_States
    /\ [][C35_Steps]_vars
    /\ (queue # <<>> /\ LoopRunning) ~> (queue = <<>> \/ ~LoopRunning)

\* the first loop dequeued job 1 and was stopped; job 2, added while no loop
\* was running, outlived the stop and is in the hands of the loop of the
\* second start
C35_Witness ==
    /\ lpc[1] = "exited"
    /\ taken[1] = <<1>>
    /\ 1 \in ended
    /\ InJob(2)
    /\ ljob[2].id = 2
    /\ taken[2] = <<2>>

\* ---- jobs whose source keys have the same file name
\* the payloads of SpecStore: "in/d.p", "d", "d." and "a.b.p" in one bucket,
\* and "d" in another
StorePayloads ==
    {ParseJob("b", k, "http://cb") :
        k \in {<<"i", "n", "/", "d", ".", "p">>, <<"d">>, <<"d", ".">>,
               <<"a", ".", "b", ".", "p">>}}
        \cup {ParseJob("b2", <<"d">>, "http://cb")}

\* the jobs of SpecStore
StoreAddJob ==
    /\ job_counter < MaxWorkerJobs
    /\ \E d \in StorePayloads : AddJobOf(d)

\* main.py as it runs, with jobs for files of the same name
StoreNext ==
    \/ StoreAddJob
    \/ \E t \in ThreadIds : LoopWhile(t)
    \/ \E t \in ThreadIds : LoopGet(t)
    \/ \E t \in ThreadIds : LoopSleep1(t)
    \/ \E t \in ThreadIds : PjFields(t)
    \/ \E t \in ThreadIds : PjDownload(t)
    \/ \E t \in ThreadIds : PjDoctly(t)
    \/ \E t \in ThreadIds : PjPoll(t)
    \/ \E t \in ThreadIds : PjParse(t)
    \/ \E t \in ThreadIds : PjUpload(t)
    \/ \E t \in ThreadIds : PjSuccess(t)
    \/ \E t \in ThreadIds : PjError(t)
    \/ \E t \in ThreadIds : PjCleanup(t)
    \/ \E k \in OneCtl : SbwCall(k)
    \/ \E k \in OneCtl : SbwTest(k)
    \/ \E k \in OneCtl : SbwNew(k)
    \/ \E k \in OneCtl : SbwStart(k)
    \/ \E k \in OneCtl : StartTest(k)
    \/ \E k \in OneCtl : StartSet(k)
    \/ \E k \in OneCtl : StartNew(k)
    \/ \E k \in OneCtl : StartRun(k)

SpecStore == Init /\ [][StoreNext]_vars

\* the file name of an object key: what is left of it when the directory
\* prefix, empty or ending in "/", is taken away
NameOf(k) ==
    LET cut == CHOOSE i \in 0..Len(k) :
                   /\ i = 0 \/ k[i] = "/"
                   /\ \A j \in (i + 1)..Len(k) : k[j] # "/"
    IN  SubSeq(k, cut + 1, Len(k))

\* a file name without its extension; an extension begins with a ".", has no
\* other ".", and follows a character that is not a "."
StemOf(n) ==
    LET exts == {i \in 1..Len(n) :
                    /\ n[i] = "."
                    /\ \A j \in (i + 1)..Len(n) : n[j] # "."
                    /\ \E j \in 1..(i - 1) : n[j] # "."}
    IN  IF exts = {} THEN n ELSE SubSeq(n, 1, (CHOOSE i \in exts : TRUE) - 1)

\* the destination key is "processed/<base name without extension>.csv", so
\* keys that differ only in directory prefix or extension have the same one
KeyFromBaseName ==
    /\ \A k \in Keys : CsvKey(k) = <<"processed/">> \o StemOf(NameOf(k)) \o <<".csv">>
    /\ \A k \in Keys : \A l \in Keys :
          StemOf(NameOf(k)) = StemOf(NameOf(l)) => CsvKey(k) = CsvKey(l)

\* upload_file has stored the CSV of the job
Uploaded(id) ==
    \/ \E n \in 1..Len(hooks[id]) : hooks[id][n].status = "success"
    \/ \E t \in ThreadIds : lpc[t] = "pj_success" /\ ljob[t].id = id

\* the job's destination is the object o
StoredAs(id, o) ==
    /\ o.bucket = appended[id].data.s3_bucket
    /\ o.key = <<"processed/">> \o StemOf(NameOf(appended[id].data.s3_key)) \o <<".csv">>

LoadDotenv ==
    /\ \A t \in AuthThreads : apc[t] = "idle"
    /\ api_key = NotSet
    /\ api_key' = ExpectedKey
    /\ UNCHANGED <<qvars, wvars, ivars, svars, poll, jloc, store, failed_attempts,
                   apc, areq, aloc, orphan, nticks>>

\* time passes between two statements: time.time() advances
AuthTick ==
    /\ nticks < MaxAuthTicks
    /\ nticks' = nticks + 1
    /\ \E d \in {1, LOCKOUT_DURATION - 1} : now' = now + d
    /\ UNCHANGED <<qnotime, wvars, ivars, svars, poll, jloc, store, failed_attempts,
                   apc, areq, aloc, orphan, api_key>>

\* what verify_api_key neither reads nor writes, and the clock and the
\* environment, which it only reads
AuthLocal == <<qvars, wvars, ivars, svars, poll, jloc, store, api_key, nticks>>

\* a request with an X-API-Key header reaches the dependency: client_ip
VerifyCall(t) ==
    /\ apc[t] = "idle"
    /\ \E ip \in ClientIps, key \in ApiKeys :
          areq' = [areq EXCEPT ![t] = [client_ip |-> ip, x_api_key |-> key]]
    /\ apc' = [apc EXCEPT ![t] = "locked_now"]
    /\ UNCHANGED <<AuthLocal, failed_attempts, aloc, orphan>>

\* is_ip_locked: now = time.time()
IsIpLockedNow(t) ==
    /\ apc[t] = "locked_now"
    /\ aloc' = [aloc EXCEPT ![t].now = now]
    /\ apc' = [apc EXCEPT ![t] = "locked_clean"]
    /\ UNCHANGED <<AuthLocal, failed_attempts, areq, orphan>>

\* [attempt for attempt in attempts if now - attempt < LOCKOUT_DURATION]
CleanOld(attempts, at) ==
    SelectSeq(attempts, LAMBDA attempt : at - attempt < LOCKOUT_DURATION)

\* is_ip_locked: the list comprehension over failed_attempts[ip]
IsIpLockedClean(t) ==
    /\ apc[t] = "locked_clean"
    /\ aloc' = [aloc EXCEPT ![t].kept =
                   CleanOld(failed_attempts[areq[t].client_ip], aloc[t].now)]
    /\ apc' = [apc EXCEPT ![t] = "locked_store"]
    /\ UNCHANGED <<AuthLocal, failed_attempts, areq, orphan>>

\* the threads that have fetched failed_attempts[ip] and not yet appended
Appending(ip) ==
    {u \in AuthThreads : apc[u] = "record_append" /\ areq[u].client_ip = ip}

\* is_ip_locked: failed_attempts[ip] = the new list
IsIpLockedStore(t) ==
    /\ apc[t] = "locked_store"
    /\ failed_attempts' =
          [failed_attempts EXCEPT ![areq[t].client_ip] = aloc[t].kept]
    /\ orphan' = orphan \cup Appending(areq[t].client_ip)
    /\ apc' = [apc EXCEPT ![t] = "locked_len"]
    /\ aloc' = [aloc EXCEPT ![t].kept = <<>>]
    /\ UNCHANGED <<AuthLocal, areq>>

\* len(failed_attempts[ip]) >= MAX_FAILED_ATTEMPTS
Locked(attempts) == Len(attempts) >= MAX_FAILED_ATTEMPTS

\* is_ip_locked returns; verify_api_key raises HTTPException(429) when locked
IsIpLockedLen(t) ==
    /\ apc[t] = "locked_len"
    /\ apc' = [apc EXCEPT ![t] =
                  IF Locked(failed_attempts[areq[t].client_ip])
                  THEN "raise_429" ELSE "getenv"]
    /\ aloc' = [aloc EXCEPT ![t] = NoAuthLocals]
    /\ UNCHANGED <<AuthLocal, failed_attempts, areq, orphan>>

\* x_api_key.strip()
Whitespace == {" ", "\t", "\n"}
Strip(key) ==
    LET inked == {i \in 1..Len(key) : key[i] \notin Whitespace} IN
    IF inked = {} THEN <<>>
    ELSE SubSeq(key, CHOOSE i \in inked : \A j \in inked : i <= j,
                     CHOOSE i \in inked : \A j \in inked : j <= i)

\* the checks of verify_api_key after the lockout test: what it raises or
\* returns for the header, with the API_KEY found in the environment
KeyVerdict(expected_api_key, x_api_key) ==
    IF expected_api_key = NotSet THEN "raise_500"
    ELSE IF x_api_key = <<>> \/ Strip(x_api_key) = <<>> THEN "record_empty"
    ELSE IF x_api_key # expected_api_key THEN "record_invalid"
    ELSE "return_key"

\* expected_api_key = os.getenv("API_KEY") and the tests of the header
VerifyKey(t) ==
    /\ apc[t] = "getenv"
    /\ apc' = [apc EXCEPT ![t] = KeyVerdict(api_key, areq[t].x_api_key)]
    /\ UNCHANGED <<AuthLocal, failed_attempts, areq, aloc, orphan>>

\* record_failed_attempt: failed_attempts[ip] and time.time() are evaluated
RecordFetch(t) ==
    /\ apc[t] \in {"record_empty", "record_invalid"}
    /\ aloc' = [aloc EXCEPT ![t].stamp = now]
    /\ apc' = [apc EXCEPT ![t] = "record_append"]
    /\ UNCHANGED <<AuthLocal, failed_attempts, areq, orphan>>

\* record_failed_attempt: append to the list that was fetched, and
\* HTTPException(401); a list replaced since it was fetched is no longer in
\* failed_attempts
RecordAppend(t) ==
    /\ apc[t] = "record_append"
    /\ failed_attempts' =
          IF t \in orphan THEN failed_attempts
          ELSE [failed_attempts EXCEPT ![areq[t].client_ip] =
                   Append(@, aloc[t].stamp)]
    /\ orphan' = orphan \ {t}
    /\ apc' = [apc EXCEPT ![t] = "raise_401"]
    /\ aloc' = [aloc EXCEPT ![t] = NoAuthLocals]
    /\ UNCHANGED <<AuthLocal, areq>>

\* how verify_api_key ends
Verdicts == {"raise_429", "raise_500", "raise_401", "return_key"}

\* the exception goes to the client, or the request goes on to its handler
VerifyEnd(t) ==
    /\ apc[t] \in Verdicts
    /\ apc' = [apc EXCEPT ![t] = "idle"]
    /\ areq' = [areq EXCEPT ![t] = NoCall]
    /\ UNCHANGED <<AuthLocal, failed_attempts, aloc, orphan>>

AuthNext ==
    \/ LoadDotenv
    \/ AuthTick
    \/ \E t \in AuthThreads :
          \/ VerifyCall(t)
          \/ IsIpLockedNow(t)
          \/ IsIpLockedClean(t)
          \/ IsIpLockedStore(t)
          \/ IsIpLockedLen(t)
          \/ VerifyKey(t)
          \/ RecordFetch(t)
          \/ RecordAppend(t)
          \/ VerifyEnd(t)

SpecAuth == Init /\ [][AuthNext]_vars

\* the attempts of the list that are younger than LOCKOUT_DURATION at the time
Young(attempts, at) ==
    Cardinality({i \in 1..Len(attempts) : at - attempts[i] < LOCKOUT_DURATION})

\* the request of thread t gets its answer to the lockout test in this step
LockoutDecided(t) == apc[t] = "locked_len" /\ apc'[t] # "locked_len"

\* the key of the request of thread t is the API key of the service
ValidKey(t) == api_key # NotSet /\ areq[t].x_api_key = api_key

C37_Steps ==
    \A t \in AuthThreads :
       /\ LockoutDecided(t) =>
             LET recorded == failed_attempts[areq[t].client_ip] IN
             IF Young(recorded, aloc[t].now) >= MAX_FAILED_ATTEMPTS
             THEN apc'[t] = "raise_429"
             ELSE ValidKey(t) => apc'[t] = "getenv"
       /\ apc[t] = "getenv" /\ apc'[t] # "getenv" /\ ValidKey(t) =>
             apc'[t] = "return_key"
       /\ apc[t] # "raise_429" /\ apc'[t] = "raise_429" =>
             apc[t] = "locked_len" /\ failed_attempts' = failed_attempts
       /\ apc[t] = "record_append" /\ apc'[t] # "record_append" =>
             apc'[t] = "raise_401"
       /\ failed_attempts' # failed_attempts =>
             \E u \in AuthThreads :
                \/ apc[u] = "record_append" /\ apc'[u] = "raise_401"
                \/ apc[u] = "locked_store" /\ apc'[u] = "locked_len"

\* C37: when the lockout test of a request is decided and at least
\* MAX_FAILED_ATTEMPTS of the attempts recorded for its IP are younger than
\* LOCKOUT_DURATION at the time the request read, the request is rejected with
\* 429 whatever its key; a request rejected with 429 records no attempt (only
\* a request answered 401 adds one); and when fewer than MAX_FAILED_ATTEMPTS
\* recorded attempts are that young, a request with the valid key passes the
\* test and verify_api_key returns its key.
C37_LockedOutWhileRecent == [][C37_Steps]_vars

====
